---------------------------- MODULE Spec2Model ----------------------------
(***************************************************************************)
(* switchboard-mcp: the MCP server handler (handler.rs), the in-process    *)
(* driver adapter (codex_runner.rs) and the loader's tool-name dedupe and  *)
(* sub-server attachment (loader.rs).                                      *)
(*                                                                         *)
(* Spec        the handler serving requests, each CallTool request running *)
(*             exec_task against its own driver conversation               *)
(* LiveSpec    Spec with the fairness of the async runtime (the adapter    *)
(*             reads an event that is ready) and of a driver that answers  *)
(*             Shutdown                                                    *)
(* SpecDedupe  dedupe_tool_names over a list of resolved agents            *)
(* SpecAttach  prepare_all's sub-server attachment (enumeration, gating)   *)
(***************************************************************************)
EXTENDS Integers, Sequences, FiniteSets, TLC

(***************************************************************************)
(* Bounds of the model.                                                    *)
(***************************************************************************)
\* driver events emitted over all conversations, the ShutdownComplete apart
MaxEvents == 2
\* resolved agents handed to dedupe_tool_names
MaxRecords == 3
\* tool references of one agent
MaxRefs == 2
\* server definitions written in the host configuration files, all together
MaxEntries == 2
\* [[mappings]] entries of a model-map file
MaxMappings == 1
\* applications of apply_to_agent to one agent
MaxApplies == 2

VARIABLES
    \* ---- handler.rs / codex_runner.rs
    agents_by_tool,   \* AgentsServerHandler.agents_by_tool: tool name -> prepared agent
    pc,               \* per request slot: "idle", "loop" (exec_task draining), "done"
    req,              \* per slot: the request being served (<<>> before it arrives)
    reply,            \* per slot: what handle_request returned (<<>> before it returns)
    run,              \* per slot: exec_task's effects and locals (ok, stdout_buf, stderr_buf)
    result,           \* per slot: what exec_task returned (<<>>, Err or Ok(CodexRunOutput))
    events,           \* per slot: the events the driver emitted on the call's conversation
    nread,            \* per slot: how many of them next_event() has delivered
    closed,           \* per slot: the driver closed the event stream
    \* ---- loader.rs: dedupe_tool_names
    records,          \* the ResolvedAgent list (their tool_name)
    seen,             \* dedupe_tool_names' seen: HashMap<String, usize>
    dpc,              \* "off", "loaded" (before dedupe_tool_names), "deduped"
    \* ---- loader.rs: prepare_all, sub-server attachment
    lpc,              \* "off", "start", "join", "done"
    settings,         \* the LoaderSettings read by the attachment
    agents,           \* per agent: mcp_tool_refs and the attached mcp_servers
    discovered,       \* discovered.by_key (its keys)
    pending,          \* the JoinSet: enumeration tasks not yet joined
    inventory,        \* inventory: server key -> enumerated tool set
    \* ---- mcp/discovery.rs and loader.rs: discovery and self-filter
    files,            \* what the host configuration files hold
    by_key,           \* the discovered map: server key -> NormalizedMcpServer
    skip_self,        \* prepare_all's skip_self, once SWITCHBOARD_SKIP_SELF is read
    kpc,              \* "off", then the source merged next, "self_filter", "done"
    \* ---- mcp/enumerator.rs: enumerate_stdio, one task per server
    tasks,            \* per server key: where the task is, its child, what it returned
    \* ---- modelmap: load and apply_to_agent
    map_file,         \* the model-map TOML file as parsed (None: missing or unreadable)
    model_map,        \* the ModelMap in effect
    apply_opts,       \* ApplyOptions
    agent_runs,       \* agent.run (an Option) before and after each apply_to_agent
    mpc,              \* "off", "load", "apply", "done"
    \* ---- toolmap/apply.rs: apply_mapping
    tm_args,          \* provider and allow_custom_servers of the calls
    tm_cfgs,          \* the AgentConfig (mcp_tool_refs, run) before and after each call
    tm_customs,       \* the custom servers each call returned
    \* ---- model/naming.rs: safe_name
    names,            \* a name, then safe_name of it, then safe_name of that
    \* ---- main.rs: the agents knobs, from environment and user config
    knob,             \* the knob being resolved (its [agents] key)
    knob_env,         \* the knob's environment variable (None: not set)
    home_env,         \* HOME (None: not set)
    user_cfg,         \* load_user_config(..).ok().flatten()
    effective,        \* the value main passes to default_settings (None: not yet)
    \* ---- parser/*.rs and loader.rs read_instructions: an agent's instructions
    agent_file,       \* the agent file as the parser reads it
    instr_fs,         \* what read_to_string gives for the instructions and prompt files
    agent_cfg,        \* the AgentConfig the parser produced (None: not yet)
    prepared_agent,   \* the PreparedAgent prepare_all pushed (None: not yet)
    ipc               \* "off", "file", "parsed", "prepared"

hvars == <<agents_by_tool, pc, req, reply, run, result, events, nread, closed>>
dvars == <<records, seen, dpc>>
avars == <<lpc, settings, agents, discovered, pending, inventory>>
kvars == <<files, by_key, skip_self, kpc>>
evars == <<tasks>>
mvars == <<map_file, model_map, apply_opts, agent_runs, mpc>>
tvars == <<tm_args, tm_cfgs, tm_customs>>
nvars == <<names>>
cvars == <<knob, knob_env, home_env, user_cfg, effective>>
ivars == <<agent_file, instr_fs, agent_cfg, prepared_agent, ipc>>
pvars == <<kvars, evars, mvars, tvars, nvars, cvars, ivars>>
vars == <<hvars, dvars, avars, pvars>>
\* everything but one group
but_kvars == <<hvars, dvars, avars, evars, mvars, tvars, nvars, cvars, ivars>>
but_evars == <<hvars, dvars, avars, kvars, mvars, tvars, nvars, cvars, ivars>>
but_mvars == <<hvars, dvars, avars, kvars, evars, tvars, nvars, cvars, ivars>>
but_tvars == <<hvars, dvars, avars, kvars, evars, mvars, nvars, cvars, ivars>>
but_nvars == <<hvars, dvars, avars, kvars, evars, mvars, tvars, cvars, ivars>>
but_cvars == <<hvars, dvars, avars, kvars, evars, mvars, tvars, nvars, ivars>>
but_ivars == <<hvars, dvars, avars, kvars, evars, mvars, tvars, nvars, cvars>>

(***************************************************************************)
(* Option<T> is a sequence of length at most one.                          *)
(***************************************************************************)
None == <<>>
Some(v) == <<v>>

(***************************************************************************)
(* handler.rs: the registry                                                *)
(***************************************************************************)
PreparedAgents ==
    << [tool_name |-> "agent_sample", name |-> "Sample"],
       [tool_name |-> "agent_other", name |-> "Other"] >>

RECURSIVE InsertAll(_, _)
InsertAll(map, list) ==
    IF list = <<>> THEN map
    ELSE LET a == Head(list)
             m == [k \in DOMAIN map \cup {a.tool_name} |->
                        IF k = a.tool_name THEN a ELSE map[k]]
         IN InsertAll(m, Tail(list))

AgentsServerHandler_new(list) == InsertAll(<<>>, list)

Slots == {1, 2}


(***************************************************************************)
(* Requests.  Strings a request carries (task, cwd) are character          *)
(* sequences; a JSON argument is a string or some other JSON value.        *)
(***************************************************************************)
JsonString(s) == [t |-> "string", s |-> s]
JsonNumber == [t |-> "number", s |-> <<>>]

AbsCwd == <<"/", "w">>
RelCwd == <<"r", "e", "l">>
EmptyCwd == <<>>
TaskText == <<"h", "i">>

TaskArgs == {JsonString(TaskText), JsonNumber}
CwdArgs == {JsonString(AbsCwd), JsonString(RelCwd), JsonString(EmptyCwd), JsonNumber}

\* request.params.arguments: Option<Map<String, Value>>
Arguments ==
    {None}
    \cup {Some([k \in {"task"} |-> t]) : t \in TaskArgs}
    \cup {Some([k \in {"cwd"} |-> c]) : c \in CwdArgs}
    \cup {Some([k \in {"task", "cwd"} |-> IF k = "task" THEN t ELSE c]) :
              t \in TaskArgs, c \in CwdArgs}

\* the tool names a request may carry: one of the registry, one unknown
ToolNames == {"agent_sample", "nope"}

CallToolRequests ==
    {[kind |-> "CallTool", tool |-> n, arguments |-> a] : n \in ToolNames, a \in Arguments}

\* m.get(key).and_then(|v| v.as_str()) on the optional argument map
GetStr(arguments, key) ==
    IF arguments = None THEN None
    ELSE LET m == arguments[1]
         IN IF key \in DOMAIN m /\ m[key].t = "string" THEN Some(m[key].s) ELSE None

\* std::path::Path::is_absolute on a unix path: it has a root
IsAbsolute(p) == Len(p) > 0 /\ p[1] = "/"

RpcError(code, message) == [tag |-> "Err", code |-> code, message |-> message]

\* CallToolResult::text_content(vec![TextContent::from(payload.to_string())]):
\* one text content whose text is the JSON object {ok, output}
TextReply(ok, output) ==
    [tag |-> "Ok",
     content |-> << [type |-> "text", text |-> [ok |-> ok, output |-> output]] >>]

\* the checks of the CallToolRequest arm before the runner is called, in the
\* order of the code; mutant: the absolute-path check is missing
CallToolCheck_noabs(registry, request) ==
    IF request.tool \notin DOMAIN registry
    THEN RpcError("MethodNotFound", <<"Unknown tool", request.tool>>)
    ELSE LET task == GetStr(request.arguments, "task")
             cwd == GetStr(request.arguments, "cwd")
         IN IF task = None
            THEN RpcError("InternalError", <<"missing required 'task' string">>)
            ELSE IF cwd = None
            THEN RpcError("InternalError", <<"missing required 'cwd' string">>)
            ELSE [tag |-> "Invoke", agent |-> registry[request.tool],
                  task |-> task[1], cwd |-> cwd[1]]

CallToolCheck(registry, request) ==
    IF request.tool \notin DOMAIN registry
    THEN RpcError("MethodNotFound", <<"Unknown tool", request.tool>>)
    ELSE LET task == GetStr(request.arguments, "task")
             cwd == GetStr(request.arguments, "cwd")
         IN IF task = None
            THEN RpcError("InternalError", <<"missing required 'task' string">>)
            ELSE IF cwd = None
            THEN RpcError("InternalError", <<"missing required 'cwd' string">>)
            ELSE IF ~IsAbsolute(cwd[1])
            THEN RpcError("InvalidParams", <<"invalid 'cwd'", cwd[1]>>)
            ELSE [tag |-> "Invoke", agent |-> registry[request.tool],
                  task |-> task[1], cwd |-> cwd[1]]

(***************************************************************************)
(* codex_runner.rs: exec_task                                              *)
(***************************************************************************)
\* what exec_task has done and the locals of its event loop
NoRun ==
    [invoked |-> FALSE, conversation |-> FALSE, ops |-> <<>>,
     ok |-> FALSE, stdout_buf |-> "", stderr_buf |-> "", exit |-> "no"]

\* the ways the set-up can fail before the event loop
Launches == {"ok", "config_error", "conversation_error", "submit_error"}

\* exec_task up to the event loop: the configuration, the cwd check, the new
\* conversation and the submission of the task
ExecTaskSetup(task, cwd, launch) ==
    LET r0 == [NoRun EXCEPT !.invoked = TRUE]
    IN IF launch = "config_error" THEN [tag |-> "Err", run |-> r0]
       ELSE IF cwd = <<>> \/ ~IsAbsolute(cwd) THEN [tag |-> "Err", run |-> r0]
       ELSE IF launch = "conversation_error" THEN [tag |-> "Err", run |-> r0]
       ELSE LET r1 == [r0 EXCEPT !.conversation = TRUE]
            IN IF launch = "submit_error" THEN [tag |-> "Err", run |-> r1]
               ELSE [tag |-> "Loop",
                     run |-> [r1 EXCEPT !.ops = <<[op |-> "UserInput", text |-> task]>>]]

\* driver events
Messages == {"hi", "yo"}
TaskComplete(m) == [kind |-> "TaskComplete", msg |-> m]
ShutdownCompleteEv == [kind |-> "ShutdownComplete", msg |-> None]
DriverEvents ==
    {TaskComplete(None)}
    \cup {TaskComplete(Some(m)) : m \in Messages}
    \cup {[kind |-> k, msg |-> Some("hi")] : k \in {"AgentMessage", "Error", "StreamError",
                                                    "BackgroundEvent"}}
    \cup {[kind |-> k, msg |-> None] : k \in {"TaskStarted"}}

\* the arms of the match on event.msg
OnTaskComplete_nonewline(st, msg) ==
    [st EXCEPT !.stdout_buf = IF msg = None THEN @ ELSE @ \o msg[1],
               !.ops = Append(@, [op |-> "Shutdown", text |-> <<>>])]

\* mutant: TaskComplete does not initiate the shutdown
OnTaskComplete_noshutdown(st, msg) ==
    [st EXCEPT !.stdout_buf = IF msg = None THEN @ ELSE (@ \o msg[1]) \o "\n"]

\* mutant: only the first TaskComplete initiates the shutdown
OnTaskComplete_once(st, msg) ==
    [st EXCEPT !.stdout_buf = IF msg = None THEN @ ELSE (@ \o msg[1]) \o "\n",
               !.ops = IF \E i \in 1..Len(@) : @[i].op = "Shutdown" THEN @
                       ELSE Append(@, [op |-> "Shutdown", text |-> <<>>])]

OnTaskComplete(st, msg) ==
    [st EXCEPT !.stdout_buf = IF msg = None THEN @ ELSE (@ \o msg[1]) \o "\n",
               !.ops = Append(@, [op |-> "Shutdown", text |-> <<>>])]

OnShutdownComplete_continue(st) == [st EXCEPT !.ok = TRUE]

OnShutdownComplete(st) == [st EXCEPT !.ok = TRUE, !.exit = "ShutdownComplete"]

OnError_abort(st, msg) ==
    [st EXCEPT !.stderr_buf = (@ \o "error: " \o msg[1]) \o "\n", !.exit = "Error"]

OnError(st, msg) == [st EXCEPT !.stderr_buf = (@ \o "error: " \o msg[1]) \o "\n"]

OnStreamError(st, msg) ==
    [st EXCEPT !.stderr_buf = (@ \o "stream_error: " \o msg[1]) \o "\n"]

OnBackgroundEvent(st, msg) == [st EXCEPT !.stderr_buf = (@ \o msg[1]) \o "\n"]

\* every other arm only logs
OnLogged(st) == st

RecvErrorText == "channel closed"

OnRecvError_ok(st) ==
    [st EXCEPT !.stderr_buf = (@ \o "error receiving event: " \o RecvErrorText) \o "\n",
               !.ok = TRUE, !.exit = "RecvError"]

OnRecvError(st) ==
    [st EXCEPT !.stderr_buf = (@ \o "error receiving event: " \o RecvErrorText) \o "\n",
               !.exit = "RecvError"]

HandleEvent(st, ev) ==
    CASE ev.kind = "TaskComplete" -> OnTaskComplete(st, ev.msg)
      [] ev.kind = "ShutdownComplete" -> OnShutdownComplete(st)
      [] ev.kind = "Error" -> OnError(st, ev.msg)
      [] ev.kind = "StreamError" -> OnStreamError(st, ev.msg)
      [] ev.kind = "BackgroundEvent" -> OnBackgroundEvent(st, ev.msg)
      [] OTHER -> OnLogged(st)

\* let status_code = if ok { 0 } else { 1 }; Ok(CodexRunOutput {..})
CodexRunOutput(st) ==
    [tag |-> "Ok", ok |-> st.ok, status |-> IF st.ok THEN 0 ELSE 1,
     stdout |-> st.stdout_buf, stderr |-> st.stderr_buf]

\* the handler's reply to what the runner returned
CallToolReply_stderr(res) ==
    IF res.tag = "Err" THEN TextReply(FALSE, "")
    ELSE TextReply(res.ok, res.stdout \o res.stderr)

CallToolReply(res) ==
    IF res.tag = "Err" THEN TextReply(FALSE, "")
    ELSE TextReply(res.ok, res.stdout)

(***************************************************************************)
(* handler.rs: handle_request.  A slot serves one request.                 *)
(***************************************************************************)
OtherRequests ==
    {[kind |-> "Initialize", compatible |-> b] : b \in BOOLEAN}
    \cup {[kind |-> k] : k \in {"ListTools", "Ping", "Custom"}}

\* one Tool per registry entry
tool_definitions(registry) == {[name |-> k] : k \in DOMAIN registry}

\* the arms of handle_request other than CallToolRequest
OtherReply(registry, request) ==
    CASE request.kind = "Initialize" ->
            IF request.compatible THEN [tag |-> "Ok", server_info |-> TRUE]
            ELSE RpcError("InternalError", <<"incompatible protocol version">>)
      [] request.kind = "ListTools" -> [tag |-> "Ok", tools |-> tool_definitions(registry)]
      [] request.kind = "Ping" -> RpcError("MethodNotFound", <<"No handler is implemented">>)
      [] OTHER -> RpcError("MethodNotFound", <<"No handler is implemented for custom requests.">>)

\* stdout_buf, stderr_buf and ok are locals of the call; mutant: buffers shared
\* by the calls in flight
SetRun_shared(r, c, st) ==
    [d \in DOMAIN r |->
        IF d = c THEN st
        ELSE [r[d] EXCEPT !.stdout_buf = st.stdout_buf, !.stderr_buf = st.stderr_buf]]

SetRun(r, c, st) == [r EXCEPT ![c] = st]

HandleOtherRequest(c) ==
    /\ pc[c] = "idle"
    /\ \E r \in OtherRequests :
          /\ req' = [req EXCEPT ![c] = Some(r)]
          /\ reply' = [reply EXCEPT ![c] = Some(OtherReply(agents_by_tool, r))]
    /\ pc' = [pc EXCEPT ![c] = "done"]
    /\ UNCHANGED <<agents_by_tool, run, result, events, nread, closed, dvars, avars, pvars>>

\* the CallToolRequest arm up to the first event of the drain loop
CallToolRequest(c) ==
    /\ pc[c] = "idle"
    /\ \E r \in CallToolRequests, launch \in Launches :
          LET chk == CallToolCheck(agents_by_tool, r)
              set == ExecTaskSetup(chk.task, chk.cwd, launch)
          IN /\ req' = [req EXCEPT ![c] = Some(r)]
             /\ IF chk.tag = "Err"
                THEN /\ reply' = [reply EXCEPT ![c] = Some(chk)]
                     /\ pc' = [pc EXCEPT ![c] = "done"]
                     /\ UNCHANGED <<run, result>>
                ELSE IF set.tag = "Err"
                THEN /\ run' = SetRun(run, c, set.run)
                     /\ result' = [result EXCEPT ![c] = Some([tag |-> "Err"])]
                     /\ reply' = [reply EXCEPT ![c] = Some(CallToolReply([tag |-> "Err"]))]
                     /\ pc' = [pc EXCEPT ![c] = "done"]
                ELSE /\ run' = SetRun(run, c, set.run)
                     /\ pc' = [pc EXCEPT ![c] = "loop"]
                     /\ UNCHANGED <<result, reply>>
    /\ UNCHANGED <<agents_by_tool, events, nread, closed, dvars, avars, pvars>>

(***************************************************************************)
(* The driver of a conversation: a black box that emits events, answers    *)
(* Shutdown with ShutdownComplete, or closes the event stream.             *)
(***************************************************************************)
RECURSIVE EmittedIn(_)
EmittedIn(S) ==
    IF S = {} THEN 0
    ELSE LET c == CHOOSE x \in S : TRUE
         IN Len(SelectSeq(events[c], LAMBDA e : e.kind # "ShutdownComplete"))
            + EmittedIn(S \ {c})

HasShutdownComplete(c) == \E i \in 1..Len(events[c]) : events[c][i].kind = "ShutdownComplete"

DriverLive(c) == pc[c] = "loop" /\ ~closed[c] /\ ~HasShutdownComplete(c)

DriverEmit(c) ==
    /\ DriverLive(c)
    /\ EmittedIn(Slots) < MaxEvents
    /\ \E ev \in DriverEvents : events' = [events EXCEPT ![c] = Append(@, ev)]
    /\ UNCHANGED <<agents_by_tool, pc, req, reply, run, result, nread, closed, dvars, avars, pvars>>

DriverShutdownComplete(c) ==
    /\ DriverLive(c)
    /\ events' = [events EXCEPT ![c] = Append(@, ShutdownCompleteEv)]
    /\ UNCHANGED <<agents_by_tool, pc, req, reply, run, result, nread, closed, dvars, avars, pvars>>

DriverClose(c) ==
    /\ DriverLive(c)
    /\ closed' = [closed EXCEPT ![c] = TRUE]
    /\ UNCHANGED <<agents_by_tool, pc, req, reply, run, result, events, nread, dvars, avars, pvars>>

(***************************************************************************)
(* codex_runner.rs: one turn of the drain loop, and what follows its exit  *)
(* (exec_task's result, the handler's reply).                              *)
(***************************************************************************)
NextEvent(c) ==
    /\ pc[c] = "loop"
    /\ nread[c] < Len(events[c]) \/ closed[c]
    /\ LET got == nread[c] < Len(events[c])
           st == IF got THEN HandleEvent(run[c], events[c][nread[c] + 1])
                 ELSE OnRecvError(run[c])
       IN /\ nread' = [nread EXCEPT ![c] = IF got THEN @ + 1 ELSE @]
          /\ run' = SetRun(run, c, st)
          /\ IF st.exit = "no"
             THEN UNCHANGED <<pc, result, reply>>
             ELSE /\ pc' = [pc EXCEPT ![c] = "done"]
                  /\ result' = [result EXCEPT ![c] = Some(CodexRunOutput(st))]
                  /\ reply' = [reply EXCEPT ![c] = Some(CallToolReply(CodexRunOutput(st)))]
    /\ UNCHANGED <<agents_by_tool, req, events, closed, dvars, avars, pvars>>

DiscoveryOff == files = <<>> /\ by_key = <<>> /\ skip_self = TRUE /\ kpc = "off"

EnumeratorOff == tasks = <<>>

ModelMapOff ==
    /\ map_file = <<>> /\ model_map = <<>> /\ apply_opts = <<>>
    /\ agent_runs = <<>> /\ mpc = "off"

ToolMapOff == tm_args = <<>> /\ tm_cfgs = <<>> /\ tm_customs = <<>>

NamingOff == names = <<>>

ConfigOff == knob = "" /\ knob_env = <<>> /\ home_env = <<>> /\ user_cfg = <<>> /\ effective = <<>>

InstructionsOff == agent_file = <<>> /\ instr_fs = <<>> /\ agent_cfg = <<>> /\ prepared_agent = <<>> /\ ipc = "off"

PrepOff == DiscoveryOff /\ EnumeratorOff /\ ModelMapOff /\ ToolMapOff /\ NamingOff /\ ConfigOff /\ InstructionsOff

LoaderOff ==
    /\ records = <<>> /\ seen = <<>> /\ dpc = "off"
    /\ lpc = "off" /\ settings = <<>> /\ agents = <<>>
    /\ discovered = {} /\ pending = {} /\ inventory = <<>>

HandlerOff ==
    /\ agents_by_tool = <<>>
    /\ pc = [c \in Slots |-> "off"]
    /\ req = [c \in Slots |-> None]
    /\ reply = [c \in Slots |-> None]
    /\ run = [c \in Slots |-> NoRun]
    /\ result = [c \in Slots |-> None]
    /\ events = [c \in Slots |-> <<>>]
    /\ nread = [c \in Slots |-> 0]
    /\ closed = [c \in Slots |-> FALSE]

OffButDiscovery == HandlerOff /\ LoaderOff /\ EnumeratorOff /\ ModelMapOff /\ ToolMapOff /\ NamingOff /\ ConfigOff /\ InstructionsOff
OffButEnumerator == HandlerOff /\ LoaderOff /\ DiscoveryOff /\ ModelMapOff /\ ToolMapOff /\ NamingOff /\ ConfigOff /\ InstructionsOff
OffButModelMap == HandlerOff /\ LoaderOff /\ DiscoveryOff /\ EnumeratorOff /\ ToolMapOff /\ NamingOff /\ ConfigOff /\ InstructionsOff
OffButToolMap == HandlerOff /\ LoaderOff /\ DiscoveryOff /\ EnumeratorOff /\ ModelMapOff /\ NamingOff /\ ConfigOff /\ InstructionsOff
OffButNaming == HandlerOff /\ LoaderOff /\ DiscoveryOff /\ EnumeratorOff /\ ModelMapOff /\ ToolMapOff /\ ConfigOff /\ InstructionsOff
OffButConfig == HandlerOff /\ LoaderOff /\ DiscoveryOff /\ EnumeratorOff /\ ModelMapOff /\ ToolMapOff /\ NamingOff /\ InstructionsOff
OffButInstructions == HandlerOff /\ LoaderOff /\ DiscoveryOff /\ EnumeratorOff /\ ModelMapOff /\ ToolMapOff /\ NamingOff /\ ConfigOff

Init ==
    /\ agents_by_tool = AgentsServerHandler_new(PreparedAgents)
    /\ pc = [c \in Slots |-> "idle"]
    /\ req = [c \in Slots |-> None]
    /\ reply = [c \in Slots |-> None]
    /\ run = [c \in Slots |-> NoRun]
    /\ result = [c \in Slots |-> None]
    /\ events = [c \in Slots |-> <<>>]
    /\ nread = [c \in Slots |-> 0]
    /\ closed = [c \in Slots |-> FALSE]
    /\ LoaderOff
    /\ PrepOff

Next ==
    \E c \in Slots :
        \/ HandleOtherRequest(c)
        \/ CallToolRequest(c)
        \/ DriverEmit(c)
        \/ DriverShutdownComplete(c)
        \/ DriverClose(c)
        \/ NextEvent(c)

Spec == Init /\ [][Next]_vars

(***************************************************************************)
(* Fairness: the runtime resumes a call whose next event (or receive       *)
(* error) is ready; a driver that has been sent Shutdown and has neither   *)
(* answered nor closed the stream eventually does one of the two.          *)
(***************************************************************************)
ShutdownRequested(c) ==
    \E i \in 1..Len(run[c].ops) : run[c].ops[i].op = "Shutdown"

Fairness ==
    \A c \in Slots :
        /\ WF_vars(NextEvent(c))
        /\ WF_vars(ShutdownRequested(c) /\ (DriverShutdownComplete(c) \/ DriverClose(c)))

LiveSpec == Init /\ [][Next]_vars /\ Fairness

(***************************************************************************)
(* Vocabulary of the properties.                                           *)
(***************************************************************************)
\* the events next_event() has delivered to the call, in order
Read(c) == SubSeq(events[c], 1, nread[c])

IsCall(c) == req[c] # None /\ req[c][1].kind = "CallTool"

Returned(c) == result[c] # None /\ result[c][1].tag = "Ok"

\* the drain loop's last next_event() delivered ShutdownComplete
EndedByShutdownComplete(c) ==
    nread[c] > 0 /\ events[c][nread[c]].kind = "ShutdownComplete"

HasStringArg(r, key) ==
    /\ r.arguments # None
    /\ key \in DOMAIN r.arguments[1]
    /\ r.arguments[1][key].t = "string"

ReplyError(c, code) ==
    /\ reply[c] # None
    /\ reply[c][1].tag = "Err"
    /\ reply[c][1].code = code

\* nothing of exec_task happened for the slot
RunnerUntouched(c) ==
    /\ ~run[c].invoked
    /\ ~run[c].conversation
    /\ run[c].ops = <<>>
    /\ result[c] = None
    /\ events[c] = <<>>

(***************************************************************************)
(* C2: a call_tool request is checked in the order unknown tool            *)
(* (MethodNotFound), missing or non-string task (InternalError), missing   *)
(* or non-string cwd (InternalError), non-absolute cwd (InvalidParams),    *)
(* stopping at the first failure; in each of the four cases exec_task is   *)
(* not invoked, no conversation is created and no task is submitted.       *)
(***************************************************************************)
C2_Case(c) ==
    LET r == req[c][1]
        unknown == r.tool \notin DOMAIN agents_by_tool
        noTask == ~HasStringArg(r, "task")
        noCwd == ~HasStringArg(r, "cwd")
    IN IF unknown THEN "tool"
       ELSE IF noTask THEN "task"
       ELSE IF noCwd THEN "cwd"
       ELSE IF r.arguments[1]["cwd"].s = <<>> \/ r.arguments[1]["cwd"].s[1] # "/" THEN "relative"
       ELSE "valid"

C2_ValidationOrder ==
    \A c \in Slots :
        (pc[c] = "done" /\ IsCall(c)) =>
            /\ C2_Case(c) = "tool" => ReplyError(c, "MethodNotFound")
            /\ C2_Case(c) = "task" =>
                  /\ ReplyError(c, "InternalError")
                  /\ reply[c][1].message = <<"missing required 'task' string">>
            /\ C2_Case(c) = "cwd" =>
                  /\ ReplyError(c, "InternalError")
                  /\ reply[c][1].message = <<"missing required 'cwd' string">>
            /\ C2_Case(c) = "relative" => ReplyError(c, "InvalidParams")
            /\ C2_Case(c) # "valid" => RunnerUntouched(c)

\* a call with a known tool, a task and a relative cwd was refused
C2_Witness ==
    \E c \in Slots :
        /\ pc[c] = "done" /\ IsCall(c)
        /\ C2_Case(c) = "relative"
        /\ req[c][1].arguments[1]["cwd"].s = RelCwd
        /\ ReplyError(c, "InvalidParams")

(***************************************************************************)
(* C3: the call_tool reply does not depend on stderr: two calls whose      *)
(* runs returned the same ok and the same stdout get the same reply, which *)
(* is one text content holding {ok, output: stdout}; when the adapter      *)
(* returned an error the reply is {ok: false, output: ""}, a result and    *)
(* not an RPC error.                                                       *)
(***************************************************************************)
C3_ReplyIgnoresStderr ==
    /\ \A c, d \in Slots :
          (/\ Returned(c) /\ Returned(d)
           /\ result[c][1].ok = result[d][1].ok
           /\ result[c][1].stdout = result[d][1].stdout)
          => reply[c] = reply[d]
    /\ \A c \in Slots :
          Returned(c) =>
             /\ reply[c] # None /\ reply[c][1].tag = "Ok"
             /\ Len(reply[c][1].content) = 1
             /\ reply[c][1].content[1] =
                   [type |-> "text",
                    text |-> [ok |-> result[c][1].ok, output |-> result[c][1].stdout]]
    /\ \A c \in Slots :
          (result[c] # None /\ result[c][1].tag = "Err") =>
             /\ reply[c] # None /\ reply[c][1].tag = "Ok"
             /\ reply[c][1].content =
                   << [type |-> "text", text |-> [ok |-> FALSE, output |-> ""]] >>

\* two runs with equal ok and stdout and different stderr were answered
C3_Witness ==
    \E c, d \in Slots :
        /\ Returned(c) /\ Returned(d)
        /\ result[c][1].ok = result[d][1].ok
        /\ result[c][1].stdout = result[d][1].stdout
        /\ result[c][1].stderr # result[d][1].stderr
        /\ reply[c] # None /\ reply[d] # None

(***************************************************************************)
(* C4: exec_task returns ok = true exactly when its loop ended by          *)
(* receiving ShutdownComplete (an exit on a receive error returns          *)
(* ok = false), and status is 0 exactly when ok and 1 otherwise.           *)
(***************************************************************************)
C4_OkIffShutdownComplete ==
    \A c \in Slots :
        Returned(c) =>
            /\ result[c][1].ok <=> EndedByShutdownComplete(c)
            /\ result[c][1].status = 0 <=> result[c][1].ok
            /\ result[c][1].status = 1 <=> ~result[c][1].ok

\* one run ended on ShutdownComplete and another on a receive error
C4_Witness ==
    \E c, d \in Slots :
        /\ Returned(c) /\ EndedByShutdownComplete(c) /\ result[c][1].status = 0
        /\ Returned(d) /\ ~EndedByShutdownComplete(d) /\ closed[d] /\ result[d][1].status = 1

(***************************************************************************)
(* C5: stdout is the concatenation, in emission order, of the              *)
(* last_agent_message of every TaskComplete that carried one, each         *)
(* followed by a newline; no other event changes it.                       *)
(***************************************************************************)
RECURSIVE ExpectedStdout(_)
ExpectedStdout(evs) ==
    IF evs = <<>> THEN ""
    ELSE LET e == Head(evs)
             line == IF e.kind = "TaskComplete" /\ e.msg # None
                     THEN e.msg[1] \o "\n" ELSE ""
         IN line \o ExpectedStdout(Tail(evs))

C5_StdoutIsCompletions ==
    \A c \in Slots :
        /\ run[c].stdout_buf = ExpectedStdout(Read(c))
        /\ Returned(c) => result[c][1].stdout = ExpectedStdout(Read(c))

\* a run that folded two completions with different messages
C5_Witness ==
    \E c \in Slots :
        /\ Returned(c)
        /\ Read(c) = <<TaskComplete(Some("hi")), TaskComplete(Some("yo")), ShutdownCompleteEv>>
        /\ result[c][1].stdout = "hi\nyo\n"

(***************************************************************************)
(* C6: an Error or StreamError event appends one line to stderr            *)
(* ("error: <msg>" / "stream_error: <msg>"), leaves ok and stdout as they  *)
(* were and does not end the loop; a stream of such events followed by     *)
(* TaskComplete and ShutdownComplete returns ok = true.                    *)
(***************************************************************************)
ErrorsThenDone(evs) ==
    /\ Len(evs) >= 2
    /\ evs[Len(evs)].kind = "ShutdownComplete"
    /\ evs[Len(evs) - 1].kind = "TaskComplete"
    /\ \A i \in 1..(Len(evs) - 2) : evs[i].kind \in {"Error", "StreamError"}

C6_Step(c) ==
    /\ (/\ pc[c] = "loop"
        /\ nread'[c] = nread[c] + 1
        /\ events[c][nread'[c]].kind \in {"Error", "StreamError"})
       => LET ev == events[c][nread'[c]]
              prefix == IF ev.kind = "Error" THEN "error: " ELSE "stream_error: "
          IN /\ pc'[c] = "loop"
             /\ result'[c] = None
             /\ run'[c].ok = run[c].ok
             /\ run'[c].stdout_buf = run[c].stdout_buf
             /\ run'[c].stderr_buf = run[c].stderr_buf \o prefix \o ev.msg[1] \o "\n"
    /\ (/\ pc[c] = "loop"
        /\ pc'[c] = "done"
        /\ ErrorsThenDone(SubSeq(events'[c], 1, nread'[c])))
       => /\ result'[c] # None
          /\ result'[c][1].tag = "Ok"
          /\ result'[c][1].ok

C6_ErrorsAreData == [][\A c \in Slots : C6_Step(c)]_vars

\* a run that saw an Error, then TaskComplete and ShutdownComplete
C6_Witness ==
    \E c \in Slots :
        /\ Returned(c)
        /\ Len(Read(c)) = 3
        /\ Read(c)[1].kind = "Error"
        /\ ErrorsThenDone(Read(c))
        /\ result[c][1].ok
        /\ result[c][1].stderr = "error: hi\n"

(***************************************************************************)
(* C7: the drain loop is left only on ShutdownComplete or on a receive     *)
(* error.  As claimed: under the fairness of LiveSpec every call in the    *)
(* loop returns.  As amended: every call that has submitted Shutdown       *)
(* returns.                                                                *)
(***************************************************************************)
C7_Exit(c) ==
    (pc[c] = "loop" /\ pc'[c] = "done") =>
        \/ /\ nread'[c] = nread[c] + 1
           /\ events[c][nread'[c]].kind = "ShutdownComplete"
        \/ /\ nread'[c] = nread[c]
           /\ nread[c] = Len(events[c])
           /\ closed[c]

C7_ReturnsOnceShutdownSent ==
    /\ [][\A c \in Slots : C7_Exit(c)]_vars
    /\ \A c \in Slots : (pc[c] = "loop" /\ ShutdownRequested(c)) ~> (pc[c] = "done")

C7_AlwaysReturns ==
    /\ [][\A c \in Slots : C7_Exit(c)]_vars
    /\ \A c \in Slots : (pc[c] = "loop") ~> (pc[c] = "done")

\* a call that submitted Shutdown and returned on ShutdownComplete
C7_Witness ==
    \E c \in Slots :
        /\ pc[c] = "done"
        /\ ShutdownRequested(c)
        /\ EndedByShutdownComplete(c)

(***************************************************************************)
(* C8: concurrent calls do not interfere: whatever the interleaving, each  *)
(* call's {ok, status, stdout, stderr} is what the call produces alone on  *)
(* its own event stream, and the registry is the one built at startup.     *)
(***************************************************************************)
RECURSIVE FoldEvents(_, _)
FoldEvents(st, evs) ==
    IF evs = <<>> THEN st ELSE FoldEvents(HandleEvent(st, Head(evs)), Tail(evs))

\* the loop's locals of a call that runs alone and has read Read(c)
AloneState(c) ==
    LET chk == CallToolCheck(AgentsServerHandler_new(PreparedAgents), req[c][1])
    IN FoldEvents(ExecTaskSetup(chk.task, chk.cwd, "ok").run, Read(c))

AloneResult(c) ==
    CodexRunOutput(IF EndedByShutdownComplete(c) THEN AloneState(c)
                   ELSE OnRecvError(AloneState(c)))

C8_NoInterference ==
    /\ agents_by_tool = AgentsServerHandler_new(PreparedAgents)
    /\ \A c \in Slots :
          /\ pc[c] = "loop" => run[c] = AloneState(c)
          /\ Returned(c) => result[c][1] = AloneResult(c)

\* two calls in flight at once, each having folded a completion of its own
C8_Witness ==
    /\ pc[1] = "loop" /\ pc[2] = "loop"
    /\ run[1].stdout_buf = "hi\n"
    /\ run[2].stdout_buf = "yo\n"

(***************************************************************************)
(* loader.rs: dedupe_tool_names.  A tool name is prefix + safe_name(name), *)
(* so it may itself end in "_<n>" (safe_name("a 2") = "a_2").              *)
(***************************************************************************)
LoadedToolNames == {"agent_a", "agent_a_2", "agent_a_2_2", "agent_b"}

RECURSIVE SeqsUpTo(_, _)
SeqsUpTo(S, n) ==
    IF n = 0 THEN {<<>>}
    ELSE LET shorter == SeqsUpTo(S, n - 1)
         IN shorter \cup {Append(q, x) : q \in shorter, x \in S}

\* the loop of dedupe_tool_names from record i on, with the names seen so far
RECURSIVE DedupeFrom(_, _, _)
DedupeFrom(recs, i, sn) ==
    IF i > Len(recs) THEN [records |-> recs, seen |-> sn]
    ELSE LET candidate == recs[i].tool_name
         IN IF candidate \in DOMAIN sn
            THEN LET count == sn[candidate] + 1
                     renamed == (candidate \o "_") \o ToString(count)
                 IN DedupeFrom([recs EXCEPT ![i].tool_name = renamed], i + 1,
                               [sn EXCEPT ![candidate] = count])
            ELSE DedupeFrom(recs, i + 1,
                            [k \in DOMAIN sn \cup {candidate} |->
                                 IF k = candidate THEN 1 ELSE sn[k]])

dedupe_tool_names(recs) == DedupeFrom(recs, 1, <<>>)

DedupeToolNames ==
    /\ dpc = "loaded"
    /\ LET out == dedupe_tool_names(records)
       IN /\ records' = out.records
          /\ seen' = out.seen
    /\ dpc' = "deduped"
    /\ UNCHANGED <<hvars, avars, pvars>>

InitDedupe ==
    /\ HandlerOff
    /\ PrepOff
    /\ lpc = "off" /\ settings = <<>> /\ agents = <<>>
    /\ discovered = {} /\ pending = {} /\ inventory = <<>>
    /\ records \in {[i \in DOMAIN q |-> [tool_name |-> q[i]]] :
                        q \in SeqsUpTo(LoadedToolNames, MaxRecords)}
    /\ seen = <<>>
    /\ dpc = "loaded"

NextDedupe == DedupeToolNames

SpecDedupe == InitDedupe /\ [][NextDedupe]_vars

(***************************************************************************)
(* C1: after dedupe_tool_names the tool names are pairwise distinct.       *)
(***************************************************************************)
C1_DistinctToolNames ==
    dpc = "deduped" =>
        \A i, j \in 1..Len(records) :
            i # j => records[i].tool_name # records[j].tool_name

(***************************************************************************)
(* loader.rs: prepare_all, sub-server attachment.  A discovered server is  *)
(* its key (by_key maps a key to the server of that key); an agent's       *)
(* mcp_servers is the set of keys attached to it.                          *)
(***************************************************************************)
ServerKeys == {"srv1", "srv2"}
ToolIds == {"t1", "t2"}

Namespaced(k, t) == [kind |-> "Namespaced", server_key |-> k, tool |-> t]
Bare(t) == [kind |-> "Bare", tool |-> t]
ToolRefs == {Namespaced(k, t) : k \in ServerKeys, t \in ToolIds} \cup {Bare(t) : t \in ToolIds}

AgentIds == {1, 2}

RECURSIVE TotalRefs(_, _)
TotalRefs(ags, S) ==
    IF S = {} THEN 0
    ELSE LET a == CHOOSE x \in S : TRUE
         IN Len(ags[a].mcp_tool_refs) + TotalRefs(ags, S \ {a})

\* the LoaderSettings the attachment reads
SettingsSpace ==
    [enumerate : BOOLEAN, limit_mcp_to_referenced : BOOLEAN, enum_fallback_all : BOOLEAN,
     enum_strict : BOOLEAN, enum_max_servers : 1..Cardinality(ServerKeys)]

HasBare(refs) == \E i \in 1..Len(refs) : refs[i].kind = "Bare"

\* the candidate server set built over all agents
Candidates(ags, disc) ==
    UNION {
        {ags[a].mcp_tool_refs[i].server_key :
            i \in {j \in 1..Len(ags[a].mcp_tool_refs) :
                       ags[a].mcp_tool_refs[j].kind = "Namespaced"}}
        \cup (IF HasBare(ags[a].mcp_tool_refs) THEN disc ELSE {})
        : a \in DOMAIN ags}

\* attachment without enumeration; mutant: a bare reference selects nothing
attach_mcp_servers_to_agent_barenone(refs, disc, limit_to_referenced) ==
    IF disc = {} THEN {}
    ELSE IF ~limit_to_referenced THEN disc
    ELSE {refs[i].server_key :
              i \in {j \in 1..Len(refs) : refs[j].kind = "Namespaced"}} \cap disc

attach_mcp_servers_to_agent(refs, disc, limit_to_referenced) ==
    IF disc = {} THEN {}
    ELSE IF ~limit_to_referenced THEN disc
    ELSE IF HasBare(refs) THEN disc
    ELSE {refs[i].server_key : i \in 1..Len(refs)} \cap disc

\* the Namespaced arm of gate_by_inventory; mutant: the tool is not looked up
SelectNamespaced_anytool(r, disc, inv) ==
    IF r.server_key \in DOMAIN inv
    THEN {r.server_key} \cap disc
    ELSE {}

SelectNamespaced(r, disc, inv) ==
    IF r.server_key \in DOMAIN inv
    THEN IF r.tool \in inv[r.server_key] THEN {r.server_key} \cap disc ELSE {}
    ELSE {}

\* the Bare arm of gate_by_inventory; mutant: an ambiguous tool always
\* selects every server exposing it
SelectBare_ambiguousall(r, disc, inv, fallback_all_on_ambiguous) ==
    {k \in DOMAIN inv : r.tool \in inv[k]} \cap disc

SelectBare(r, disc, inv, fallback_all_on_ambiguous) ==
    LET matches == {k \in DOMAIN inv : r.tool \in inv[k]}
    IN IF matches = {} THEN {}
       ELSE IF Cardinality(matches) = 1 THEN matches \cap disc
       ELSE IF fallback_all_on_ambiguous THEN matches \cap disc
       ELSE {}

SelectedBy(refs, disc, inv, fallback_all_on_ambiguous) ==
    UNION {IF refs[i].kind = "Namespaced"
           THEN SelectNamespaced(refs[i], disc, inv)
           ELSE SelectBare(refs[i], disc, inv, fallback_all_on_ambiguous)
           : i \in 1..Len(refs)}

\* mutant: the attach-all fallback is taken whatever limit_to_referenced is
gate_by_inventory_alwaysall(refs, disc, inv, fallback_all_on_ambiguous, limit_to_referenced) ==
    LET selected == SelectedBy(refs, disc, inv, fallback_all_on_ambiguous)
    IN IF selected = {} THEN disc ELSE selected

gate_by_inventory(refs, disc, inv, fallback_all_on_ambiguous, limit_to_referenced) ==
    LET selected == SelectedBy(refs, disc, inv, fallback_all_on_ambiguous)
    IN IF selected = {} /\ ~limit_to_referenced THEN disc ELSE selected

\* nothing is discovered: no attachment
SkipAttachment ==
    /\ lpc = "start"
    /\ discovered = {}
    /\ lpc' = "done"
    /\ UNCHANGED <<settings, agents, discovered, pending, inventory, hvars, dvars, pvars>>

AttachWithoutEnumeration ==
    /\ lpc = "start"
    /\ discovered # {}
    /\ ~settings.enumerate
    /\ agents' = [a \in DOMAIN agents |->
                     [agents[a] EXCEPT !.mcp_servers =
                         attach_mcp_servers_to_agent(agents[a].mcp_tool_refs, discovered,
                                                     settings.limit_mcp_to_referenced)]]
    /\ lpc' = "done"
    /\ UNCHANGED <<settings, discovered, pending, inventory, hvars, dvars, pvars>>

\* the candidates, cut to enum_max_servers in the HashSet's iteration order
\* (any subset of that size), and one enumeration task per discovered one
StartEnumeration ==
    /\ lpc = "start"
    /\ discovered # {}
    /\ settings.enumerate
    /\ LET candidates == Candidates(agents, discovered)
           n == IF Cardinality(candidates) < settings.enum_max_servers
                THEN Cardinality(candidates) ELSE settings.enum_max_servers
       IN \E keys \in {K \in SUBSET candidates : Cardinality(K) = n} :
              pending' = keys \cap discovered
    /\ lpc' = "join"
    /\ UNCHANGED <<settings, agents, discovered, inventory, hvars, dvars, pvars>>

\* set.join_next(): a task ends with the server's tools or with an error
JoinNext ==
    /\ lpc = "join"
    /\ \E k \in pending :
          /\ pending' = pending \ {k}
          /\ \/ \E tools \in SUBSET ToolIds :
                   inventory' = [x \in DOMAIN inventory \cup {k} |->
                                    IF x = k THEN tools ELSE inventory[x]]
             \/ UNCHANGED inventory
    /\ UNCHANGED <<lpc, settings, agents, discovered, hvars, dvars, pvars>>

\* mutant: the agents are gated against the discovered set as it was
GateAgents_uncut ==
    /\ lpc = "join"
    /\ pending = {}
    /\ agents' = [a \in DOMAIN agents |->
                     [agents[a] EXCEPT !.mcp_servers =
                         gate_by_inventory(agents[a].mcp_tool_refs, discovered, inventory,
                                           settings.enum_fallback_all,
                                           settings.limit_mcp_to_referenced)]]
    /\ lpc' = "done"
    /\ UNCHANGED <<settings, discovered, pending, inventory, hvars, dvars, pvars>>

\* all tasks joined: the discovered set is cut to the inventory and every
\* agent is gated
GateAgents ==
    /\ lpc = "join"
    /\ pending = {}
    /\ LET kept == {k \in discovered : k \in DOMAIN inventory}
       IN /\ discovered' = kept
          /\ agents' = [a \in DOMAIN agents |->
                           [agents[a] EXCEPT !.mcp_servers =
                               gate_by_inventory(agents[a].mcp_tool_refs, kept, inventory,
                                                 settings.enum_fallback_all,
                                                 settings.limit_mcp_to_referenced)]]
    /\ lpc' = "done"
    /\ UNCHANGED <<settings, pending, inventory, hvars, dvars, pvars>>

InitAttach ==
    /\ HandlerOff
    /\ PrepOff
    /\ records = <<>> /\ seen = <<>> /\ dpc = "off"
    /\ lpc = "start"
    /\ settings \in SettingsSpace
    /\ agents \in {ags \in [AgentIds -> [mcp_tool_refs : SeqsUpTo(ToolRefs, MaxRefs),
                                         mcp_servers : {{}}]] :
                      TotalRefs(ags, AgentIds) <= MaxRefs}
    /\ discovered \in SUBSET ServerKeys
    /\ pending = {}
    /\ inventory = <<>>

NextAttach ==
    \/ SkipAttachment
    \/ AttachWithoutEnumeration
    \/ StartEnumeration
    \/ JoinNext
    \/ GateAgents

SpecAttach == InitAttach /\ [][NextAttach]_vars

(***************************************************************************)
(* Vocabulary of the attachment properties.                                *)
(***************************************************************************)
Attached(a) == agents[a].mcp_servers

RefsOf(a) == agents[a].mcp_tool_refs

\* the attachment has finished on the enumeration path
Gated == lpc = "done" /\ settings.enumerate

\* reference r of an agent is a reason for server k: a namespaced reference
\* to k whose tool k enumerated, or a bare reference whose tool k enumerated,
\* k being the only such server unless enum_fallback_all
NamespacedCovers(r, k) ==
    /\ r.kind = "Namespaced"
    /\ r.server_key = k
    /\ k \in DOMAIN inventory
    /\ r.tool \in inventory[k]

BareMatches(r, k) ==
    /\ r.kind = "Bare"
    /\ k \in DOMAIN inventory
    /\ r.tool \in inventory[k]
    /\ \/ settings.enum_fallback_all
       \/ \A j \in DOMAIN inventory : r.tool \in inventory[j] => j = k

\* no reference of agent a is a reason for any server
NothingSelected(a) ==
    \A i \in 1..Len(RefsOf(a)) : \A k \in ServerKeys :
        ~NamespacedCovers(RefsOf(a)[i], k) /\ ~BareMatches(RefsOf(a)[i], k)

\* C9 (as stated): with enumeration, for every agent and every namespaced
\* reference {k,t} of it whose server k is in the inventory, k is attached
\* to the agent if and only if t is in inventory[k].
C9_AttachedIffToolListed ==
    Gated =>
        \A a \in AgentIds : \A i \in 1..Len(RefsOf(a)) :
            LET r == RefsOf(a)[i]
            IN (r.kind = "Namespaced" /\ r.server_key \in DOMAIN inventory)
                   => (r.server_key \in Attached(a) <=> r.tool \in inventory[r.server_key])

\* C9 (amended): with enumeration, for every agent and every namespaced
\* reference {k,t} of it whose server k is in the inventory, k is attached
\* to the agent if and only if t is in inventory[k], or another reference
\* of the agent is a reason for k, or no reference of the agent is a reason
\* for any server and limit_to_referenced is false.
C9_AttachedIffToolListedOrOtherwiseKept ==
    Gated =>
        \A a \in AgentIds : \A i \in 1..Len(RefsOf(a)) :
            LET r == RefsOf(a)[i]
                k == r.server_key
            IN (r.kind = "Namespaced" /\ k \in DOMAIN inventory)
                   => (k \in Attached(a) <=>
                          \/ r.tool \in inventory[k]
                          \/ \E j \in 1..Len(RefsOf(a)) :
                                 /\ j # i
                                 /\ \/ NamespacedCovers(RefsOf(a)[j], k)
                                    \/ BareMatches(RefsOf(a)[j], k)
                          \/ NothingSelected(a) /\ ~settings.limit_mcp_to_referenced)

\* an agent with two namespaced references to one enumerated server, one tool
\* enumerated and the other not, limited to referenced servers: the server is
\* attached
C9_Witness ==
    /\ Gated
    /\ settings.limit_mcp_to_referenced
    /\ \E a \in AgentIds : \E i, j \in 1..Len(RefsOf(a)) :
           /\ RefsOf(a)[i].kind = "Namespaced"
           /\ RefsOf(a)[j].kind = "Namespaced"
           /\ RefsOf(a)[i].server_key = RefsOf(a)[j].server_key
           /\ RefsOf(a)[i].server_key \in DOMAIN inventory
           /\ RefsOf(a)[i].tool \in inventory[RefsOf(a)[i].server_key]
           /\ RefsOf(a)[j].tool \notin inventory[RefsOf(a)[j].server_key]
           /\ RefsOf(a)[i].server_key \in Attached(a)

\* C10 (as stated): every server attached to an agent is there because (i)
\* its enumerated tools contain the tool of a namespaced reference of the
\* agent to it, or (ii) the agent has a bare reference whose tool it exposes,
\* the fallback policy permitting, or (iii) gating was disabled.
C10_AttachedIsJustified ==
    lpc = "done" =>
        \A a \in AgentIds : \A k \in Attached(a) :
            \/ \E i \in 1..Len(RefsOf(a)) : NamespacedCovers(RefsOf(a)[i], k)
            \/ \E i \in 1..Len(RefsOf(a)) : BareMatches(RefsOf(a)[i], k)
            \/ ~settings.enumerate

\* C10 (amended): every server attached to an agent is there because of (i),
\* (ii) or (iii), or because (iv) it was enumerated, no reference of the
\* agent is a reason for any server, and limit_to_referenced is false.
C10_AttachedIsJustifiedOrFallback ==
    lpc = "done" =>
        \A a \in AgentIds : \A k \in Attached(a) :
            \/ \E i \in 1..Len(RefsOf(a)) : NamespacedCovers(RefsOf(a)[i], k)
            \/ \E i \in 1..Len(RefsOf(a)) : BareMatches(RefsOf(a)[i], k)
            \/ ~settings.enumerate
            \/ /\ k \in DOMAIN inventory
               /\ NothingSelected(a)
               /\ ~settings.limit_mcp_to_referenced

\* gating ran and attached to an agent a server that none of its references
\* names, next to an agent whose reference did select a server
C10_Witness ==
    /\ Gated
    /\ \E a \in AgentIds : \E k \in Attached(a) :
           /\ NothingSelected(a)
           /\ \A i \in 1..Len(RefsOf(a)) :
                  RefsOf(a)[i].kind = "Namespaced" /\ RefsOf(a)[i].server_key # k
           /\ Len(RefsOf(a)) > 0
    /\ \E b \in AgentIds : ~NothingSelected(b) /\ Attached(b) # {}

(***************************************************************************)
(* Strings whose characters matter are sequences of characters.            *)
(***************************************************************************)
UpperCase == <<"A", "B", "C", "D", "E", "F", "G", "H", "I", "J", "K", "L", "M",
               "N", "O", "P", "Q", "R", "S", "T", "U", "V", "W", "X", "Y", "Z">>
LowerCase == <<"a", "b", "c", "d", "e", "f", "g", "h", "i", "j", "k", "l", "m",
               "n", "o", "p", "q", "r", "s", "t", "u", "v", "w", "x", "y", "z">>

\* char::to_ascii_lowercase
to_ascii_lowercase_char(c) ==
    IF \E i \in DOMAIN UpperCase : UpperCase[i] = c
    THEN LowerCase[CHOOSE i \in DOMAIN UpperCase : UpperCase[i] = c]
    ELSE c

\* str::to_ascii_lowercase
to_ascii_lowercase(str) == [i \in DOMAIN str |-> to_ascii_lowercase_char(str[i])]

\* str::eq_ignore_ascii_case
eq_ignore_ascii_case(a, b) == to_ascii_lowercase(a) = to_ascii_lowercase(b)

\* str::starts_with
starts_with(str, prefix) ==
    /\ Len(prefix) <= Len(str)
    /\ SubSeq(str, 1, Len(prefix)) = prefix

(***************************************************************************)
(* mcp/discovery.rs: discover_stdio_servers.  A JSON object is a function  *)
(* from its keys; a server keeps its key, its command and its origin (args *)
(* and env are copied from the definition and read by nothing here).       *)
(***************************************************************************)
S_memory == <<"m", "e", "m", "o", "r", "y">>
S_MEMORY == <<"M", "E", "M", "O", "R", "Y">>
S_Switchboard == <<"S", "w", "i", "t", "c", "h", "b", "o", "a", "r", "d">>
S_switchboard == <<"s", "w", "i", "t", "c", "h", "b", "o", "a", "r", "d">>
S_switchboard_mcp == S_switchboard \o <<"-", "m", "c", "p">>
S_npx == <<"n", "p", "x">>
S_opt_switchboard_mcp == <<"/", "o", "p", "t", "/">> \o S_switchboard_mcp \o <<"-", "d", "e", "v">>
S_http == <<"h", "t", "t", "p">>
S_HTTP == <<"H", "T", "T", "P">>
S_url == <<"u">>

ConfigKeys == {S_memory, S_Switchboard}

\* server definitions a configuration file may hold under a key
ServerDefs ==
    { [command |-> JsonString(S_npx)],
      [command |-> JsonString(S_opt_switchboard_mcp)],
      [command |-> JsonNumber],
      [type |-> JsonString(S_http), url |-> JsonString(S_url)],
      [type |-> JsonString(S_HTTP), command |-> JsonString(S_npx)],
      [url |-> JsonString(S_url), command |-> JsonString(S_npx)] }

\* the server tables of the configuration files
Sections == {"claude_project", "claude_user_project", "claude_user_global",
             "vscode_project_servers", "vscode_project_mcpServers",
             "vscode_user_servers", "cursor"}

\* enabledMcpjsonServers / disabledMcpjsonServers of the workspace's project
ProjectFilters ==
    { [enabled |-> None, disabled |-> <<>>],
      [enabled |-> Some(<<S_MEMORY>>), disabled |-> <<>>],
      [enabled |-> None, disabled |-> <<S_memory>>] }

RECURSIVE SubsetsUpTo(_, _)
SubsetsUpTo(S, n) ==
    IF n = 0 THEN {{}}
    ELSE LET smaller == SubsetsUpTo(S, n - 1)
         IN smaller \cup {P \cup {x} : P \in smaller, x \in S}

\* the table of a section, from the entries written in the files
TableOf(entries, sec) ==
    [k \in {k \in ConfigKeys : <<sec, k>> \in DOMAIN entries} |-> entries[<<sec, k>>]]

\* the files: every table, the project filters, and whether a table that is
\* optional in its file is there
FilesOf(entries, filters) ==
    [claude_project |-> TableOf(entries, "claude_project"),
     claude_user |->
        [project |-> [mcpServers |-> TableOf(entries, "claude_user_project"),
                      enabledMcpjsonServers |-> filters.enabled,
                      disabledMcpjsonServers |-> filters.disabled],
         mcpServers |-> TableOf(entries, "claude_user_global")],
     vscode_project |->
        [servers |-> IF TableOf(entries, "vscode_project_servers") = <<>>
                     THEN None ELSE Some(TableOf(entries, "vscode_project_servers")),
         mcpServers |-> TableOf(entries, "vscode_project_mcpServers")],
     vscode_user |->
        IF TableOf(entries, "vscode_user_servers") = <<>> THEN None
        ELSE Some([servers |-> Some(TableOf(entries, "vscode_user_servers")),
                   mcpServers |-> <<>>]),
     cursor |-> TableOf(entries, "cursor")]

HasString(def, field) == field \in DOMAIN def /\ def[field].t = "string"

Origin(provider, path, note) == [provider |-> provider, path |-> path, note |-> note]

parse_stdio_like(key, def) ==
    IF HasString(def, "command")
    THEN Some([key |-> key, command |-> def["command"].s,
               origin |-> Origin("Claude", None, None)])
    ELSE None

parse_claude_server(key, def) ==
    IF HasString(def, "type") /\ eq_ignore_ascii_case(def["type"].s, S_http) THEN None
    ELSE IF "url" \in DOMAIN def THEN None
    ELSE parse_stdio_like(key, def)

\* the servers of a table, parsed with the stdio or the Claude parser
ParsedStdio(table, origin) ==
    LET ok == {k \in DOMAIN table : parse_stdio_like(k, table[k]) # None}
    IN [k \in ok |-> [parse_stdio_like(k, table[k])[1] EXCEPT !.origin = origin]]

ParsedClaude(table, origin) ==
    LET ok == {k \in DOMAIN table : parse_claude_server(k, table[k]) # None}
    IN [k \in ok |-> [parse_claude_server(k, table[k])[1] EXCEPT !.origin = origin]]

\* HashMap::insert / extend: the new entries replace
Overwrite(out, new) ==
    [k \in DOMAIN out \cup DOMAIN new |-> IF k \in DOMAIN new THEN new[k] ELSE out[k]]

\* HashMap::entry(..).or_insert: the new entries fill only missing keys
FillMissing(out, new) ==
    [k \in DOMAIN out \cup DOMAIN new |-> IF k \in DOMAIN out THEN out[k] ELSE new[k]]

Retain(map, keep) == [k \in {k \in DOMAIN map : k \in keep} |-> map[k]]

merge_claude_project(table, out) ==
    Overwrite(out, ParsedStdio(table, Origin("Claude", Some("claude_project"), Some(".mcp.json"))))

\* the project-scoped servers of ~/.claude.json after the project's filters
\* mutant: the disabled list is not applied
ClaudeUserProjectServers_nodisabled(proj) ==
    LET parsed == ParsedClaude(proj.mcpServers,
                               Origin("Claude", Some("claude_user"), Some("project")))
    IN IF proj.enabledMcpjsonServers = None THEN parsed
       ELSE LET allow == proj.enabledMcpjsonServers[1]
            IN Retain(parsed, {k \in DOMAIN parsed :
                   \E i \in 1..Len(allow) : eq_ignore_ascii_case(allow[i], k)})

ClaudeUserProjectServers(proj) ==
    LET parsed == ParsedClaude(proj.mcpServers,
                               Origin("Claude", Some("claude_user"), Some("project")))
        allowed == IF proj.enabledMcpjsonServers = None THEN parsed
                   ELSE LET allow == proj.enabledMcpjsonServers[1]
                        IN Retain(parsed, {k \in DOMAIN parsed :
                               \E i \in 1..Len(allow) : eq_ignore_ascii_case(allow[i], k)})
        disabled == proj.disabledMcpjsonServers
    IN Retain(allowed, {k \in DOMAIN allowed : \A i \in 1..Len(disabled) : disabled[i] # k})

\* mutant: the global servers replace the project-scoped ones
merge_claude_user_globalwins(file, out) ==
    LET merged == Overwrite(ClaudeUserProjectServers(file.project),
                            ParsedClaude(file.mcpServers,
                                Origin("Claude", Some("claude_user"), Some("global"))))
    IN Overwrite(out, merged)

merge_claude_user(file, out) ==
    LET merged == FillMissing(ClaudeUserProjectServers(file.project),
                              ParsedClaude(file.mcpServers,
                                  Origin("Claude", Some("claude_user"), Some("global"))))
    IN Overwrite(out, merged)

merge_vscode_mcp(path, file, out) ==
    LET map == IF file.servers # None THEN file.servers[1] ELSE file.mcpServers
    IN Overwrite(out, ParsedStdio(map, Origin("Vscode", Some(path), Some(".vscode/mcp.json"))))

merge_cursor_mcp(table, out) ==
    FillMissing(out, ParsedClaude(table, Origin("Cursor", Some("cursor"), Some("~/.cursor/mcp.json"))))

(***************************************************************************)
(* loader.rs: prepare_all's self-filter.                                   *)
(***************************************************************************)
\* the components of a unix path, "." and empty ones dropped
RECURSIVE Components(_, _, _)
Components(p, i, cur) ==
    LET done == IF cur = <<>> \/ cur = <<".">> THEN <<>> ELSE <<cur>>
    IN IF i > Len(p) THEN done
       ELSE IF p[i] = "/" THEN done \o Components(p, i + 1, <<>>)
       ELSE Components(p, i + 1, Append(cur, p[i]))

\* Path::file_name(..).and_then(to_str).unwrap_or("")
FileNameOrEmpty(command) ==
    LET comps == Components(command, 1, <<>>)
    IN IF comps = <<>> THEN <<>>
       ELSE IF comps[Len(comps)] = <<".", ".">> THEN <<>>
       ELSE comps[Len(comps)]

\* mutant: only the key is looked at
looks_like_self_keyonly(k, srv) == eq_ignore_ascii_case(k, S_switchboard)

looks_like_self(k, srv) ==
    \/ eq_ignore_ascii_case(k, S_switchboard)
    \/ starts_with(to_ascii_lowercase(FileNameOrEmpty(srv.command)), S_switchboard_mcp)

\* values of SWITCHBOARD_SKIP_SELF (None: not set)
SkipSelfEnv == {None, Some(<<"F", "a", "l", "s", "e">>), Some(<<"0">>), Some(<<"1">>)}

SkipSelfOf(env) ==
    IF env = None THEN TRUE
    ELSE ~(eq_ignore_ascii_case(env[1], <<"f", "a", "l", "s", "e">>) \/ env[1] = <<"0">>)

MergeClaudeProject ==
    /\ kpc = "claude_project"
    /\ by_key' = merge_claude_project(files.claude_project, by_key)
    /\ kpc' = "claude_user"
    /\ UNCHANGED <<files, skip_self, but_kvars>>

MergeClaudeUser ==
    /\ kpc = "claude_user"
    /\ by_key' = merge_claude_user(files.claude_user, by_key)
    /\ kpc' = "vscode_project"
    /\ UNCHANGED <<files, skip_self, but_kvars>>

MergeVscodeProject ==
    /\ kpc = "vscode_project"
    /\ by_key' = merge_vscode_mcp("vscode_project", files.vscode_project, by_key)
    /\ kpc' = "vscode_user"
    /\ UNCHANGED <<files, skip_self, but_kvars>>

\* the user file is merged only when vscode_user_mcp is configured
MergeVscodeUser ==
    /\ kpc = "vscode_user"
    /\ by_key' = IF files.vscode_user = None THEN by_key
                 ELSE merge_vscode_mcp("vscode_user", files.vscode_user[1], by_key)
    /\ kpc' = "cursor"
    /\ UNCHANGED <<files, skip_self, but_kvars>>

MergeCursor ==
    /\ kpc = "cursor"
    /\ by_key' = merge_cursor_mcp(files.cursor, by_key)
    /\ kpc' = "self_filter"
    /\ UNCHANGED <<files, skip_self, but_kvars>>

SelfFilter ==
    /\ kpc = "self_filter"
    /\ \E env \in SkipSelfEnv :
          /\ skip_self' = SkipSelfOf(env)
          /\ by_key' = IF SkipSelfOf(env) /\ by_key # <<>>
                       THEN Retain(by_key, {k \in DOMAIN by_key : ~looks_like_self(k, by_key[k])})
                       ELSE by_key
    /\ kpc' = "done"
    /\ UNCHANGED <<files, but_kvars>>

InitDiscover ==
    /\ OffButDiscovery
    /\ \E slots \in SubsetsUpTo(Sections \X ConfigKeys, MaxEntries) :
          \E entries \in [slots -> ServerDefs] :
             \E filters \in ProjectFilters :
                files = FilesOf(entries, filters)
    /\ by_key = <<>>
    /\ skip_self = TRUE
    /\ kpc = "claude_project"

NextDiscover ==
    \/ MergeClaudeProject
    \/ MergeClaudeUser
    \/ MergeVscodeProject
    \/ MergeVscodeUser
    \/ MergeCursor
    \/ SelfFilter

SpecDiscover == InitDiscover /\ [][NextDiscover]_vars

(***************************************************************************)
(* Vocabulary of the discovery properties: what the files say, read off    *)
(* the files themselves.                                                   *)
(***************************************************************************)
\* the definition is a stdio entry: it has a string command
IsStdioDef(def) == "command" \in DOMAIN def /\ def["command"].t = "string"

\* the definition is declared with type "http" or carries a url field
IsHttpOrUrlDef(def) ==
    \/ "url" \in DOMAIN def
    \/ "type" \in DOMAIN def /\ def["type"].t = "string"
           /\ to_ascii_lowercase(def["type"].s) = S_http

\* the table a VSCode mcp.json is read from
VscodeTable(file) == IF file.servers # None THEN file.servers[1] ELSE file.mcpServers

VscodeDefines(k) ==
    \/ k \in DOMAIN VscodeTable(files.vscode_project)
           /\ IsStdioDef(VscodeTable(files.vscode_project)[k])
    \/ files.vscode_user # None
           /\ k \in DOMAIN VscodeTable(files.vscode_user[1])
           /\ IsStdioDef(VscodeTable(files.vscode_user[1])[k])

\* k passes the project's enabled / disabled lists
PassesProjectFilters(k) ==
    LET proj == files.claude_user.project
    IN /\ proj.enabledMcpjsonServers # None =>
              \E i \in 1..Len(proj.enabledMcpjsonServers[1]) :
                  to_ascii_lowercase(proj.enabledMcpjsonServers[1][i]) = to_ascii_lowercase(k)
       /\ \A i \in 1..Len(proj.disabledMcpjsonServers) : proj.disabledMcpjsonServers[i] # k

\* ~/.claude.json has a usable project-scoped (global) entry for k
ClaudeProjectScoped(k) ==
    /\ k \in DOMAIN files.claude_user.project.mcpServers
    /\ IsStdioDef(files.claude_user.project.mcpServers[k])
    /\ ~IsHttpOrUrlDef(files.claude_user.project.mcpServers[k])
    /\ PassesProjectFilters(k)

ClaudeGlobal(k) ==
    /\ k \in DOMAIN files.claude_user.mcpServers
    /\ IsStdioDef(files.claude_user.mcpServers[k])
    /\ ~IsHttpOrUrlDef(files.claude_user.mcpServers[k])

ClaudeDefines(k) ==
    \/ k \in DOMAIN files.claude_project /\ IsStdioDef(files.claude_project[k])
    \/ ClaudeProjectScoped(k)
    \/ ClaudeGlobal(k)

\* discover_stdio_servers has returned
Discovered == kpc \in {"self_filter", "done"}

\* C11: a key that a VSCode mcp.json defines as a stdio entry is discovered
\* as the VSCode entry; in ~/.claude.json a project-scoped entry beats the
\* global entry of its key; a Cursor entry is in the result only if no Claude
\* or VSCode source defined its key.
C11_DiscoveryPrecedence ==
    /\ kpc = "self_filter" =>
          \A k \in ConfigKeys :
              VscodeDefines(k) => k \in DOMAIN by_key /\ by_key[k].origin.provider = "Vscode"
    /\ kpc = "vscode_project" =>
          \A k \in ConfigKeys :
              ClaudeProjectScoped(k) =>
                  k \in DOMAIN by_key /\ by_key[k].origin.note = Some("project")
    /\ Discovered =>
          \A k \in DOMAIN by_key :
              /\ by_key[k].origin.note = Some("global") => ~ClaudeProjectScoped(k)
              /\ by_key[k].origin.provider = "Cursor" => ~ClaudeDefines(k) /\ ~VscodeDefines(k)

\* the same key in ~/.claude.json (or .mcp.json) and in a VSCode mcp.json:
\* the VSCode entry is the discovered one
C11_Witness ==
    /\ kpc = "self_filter"
    /\ \E k \in DOMAIN by_key :
          /\ ClaudeDefines(k)
          /\ VscodeDefines(k)
          /\ by_key[k].origin.provider = "Vscode"

\* basename of a command: what follows its last "/"
RECURSIVE Basename(_)
Basename(command) ==
    IF command = <<>> THEN <<>>
    ELSE IF command[Len(command)] = "/" THEN <<>>
    ELSE Append(Basename(SubSeq(command, 1, Len(command) - 1)), command[Len(command)])

IsSelf(k, srv) ==
    \/ to_ascii_lowercase(k) = S_switchboard
    \/ /\ Len(Basename(srv.command)) >= Len(S_switchboard_mcp)
       /\ \A i \in 1..Len(S_switchboard_mcp) : Basename(srv.command)[i] = S_switchboard_mcp[i]

\* C12: with the self-skip flag on (the default) the discovered map has,
\* after the self-filter, no entry keyed "switchboard" (case-insensitively)
\* and none whose command basename begins with "switchboard-mcp"; with the
\* flag off (SWITCHBOARD_SKIP_SELF=false or 0) the step leaves the map as it
\* was.
C12_SelfFilter ==
    /\ [](SkipSelfOf(None) /\ ~SkipSelfOf(Some(<<"f", "a", "l", "s", "e">>)) /\ ~SkipSelfOf(Some(<<"0">>)))
    /\ []((kpc = "done" /\ skip_self) => \A k \in DOMAIN by_key : ~IsSelf(k, by_key[k]))
    /\ [][(kpc = "self_filter" /\ ~skip_self') => by_key' = by_key]_vars

\* the filter ran with the flag on and dropped an entry; another entry stayed
C12_Witness ==
    /\ kpc = "done"
    /\ skip_self
    /\ by_key # <<>>
    /\ \E k \in ConfigKeys :
          /\ k \notin DOMAIN by_key
          /\ VscodeDefines(k) \/ ClaudeDefines(k)

\* the definition the discovered entry of k was parsed from
SourceDef(k) ==
    LET o == by_key[k].origin
    IN IF o.path = Some("claude_project") THEN files.claude_project[k]
       ELSE IF o.path = Some("claude_user")
            THEN IF o.note = Some("project") THEN files.claude_user.project.mcpServers[k]
                 ELSE files.claude_user.mcpServers[k]
       ELSE IF o.path = Some("vscode_project") THEN VscodeTable(files.vscode_project)[k]
       ELSE IF o.path = Some("vscode_user") THEN VscodeTable(files.vscode_user[1])[k]
       ELSE files.cursor[k]

\* C13: every entry of the discovery result is a stdio entry with a string
\* command, and no entry declared with type "http" or carrying a url field
\* is retained, whichever file it comes from.
C13_StdioOnly ==
    Discovered =>
        \A k \in DOMAIN by_key :
            /\ IsStdioDef(SourceDef(k))
            /\ by_key[k].command = SourceDef(k)["command"].s
            /\ ~IsHttpOrUrlDef(SourceDef(k))

(***************************************************************************)
(* mcp/enumerator.rs: enumerate_stdio, run as one task per server.  The    *)
(* child is launched by the client's start; each await ends with a value,  *)
(* an error or the timeout.                                                *)
(***************************************************************************)
Ok(v) == [tag |-> "Ok", value |-> v]
Err(msg) == [tag |-> "Err", error |-> msg]

NewTask == [at |-> "create", launched |-> FALSE, shut_down |-> FALSE,
            tools |-> {}, returned |-> None]

\* the task of server k returns r
Return(k, r) == [tasks EXCEPT ![k].at = "returned", ![k].returned = Some(r)]

\* StdioTransport::create_with_server_launch(..)?
EnumCreateTransport(k) ==
    /\ tasks[k].at = "create"
    /\ \/ tasks' = [tasks EXCEPT ![k].at = "start"]
       \/ tasks' = Return(k, Err("transport error"))
    /\ UNCHANGED but_evars

\* timeout(client.start())?: an error may come before or after the launch
EnumStart(k) ==
    /\ tasks[k].at = "start"
    /\ \/ tasks' = [tasks EXCEPT ![k].at = "list", ![k].launched = TRUE]
       \/ \E launched \in BOOLEAN : \E msg \in {"enumeration start timeout", "start error"} :
             tasks' = [Return(k, Err(msg)) EXCEPT ![k].launched = launched]
    /\ UNCHANGED but_evars

\* timeout(client.list_tools(None))?
EnumListTools(k) ==
    /\ tasks[k].at = "list"
    /\ \/ \E tools \in SUBSET ToolIds :
             tasks' = [tasks EXCEPT ![k].at = "shutdown", ![k].tools = tools]
       \/ \E msg \in {"enumeration list_tools timeout", "list_tools error"} :
             tasks' = Return(k, Err(msg))
    /\ UNCHANGED but_evars

\* timeout(client.shut_down())? and the Ok(ServerTools)
EnumShutDown(k) ==
    /\ tasks[k].at = "shutdown"
    /\ \/ tasks' = [Return(k, Ok([key |-> k, tools |-> tasks[k].tools]))
                       EXCEPT ![k].shut_down = TRUE]
       \/ \E msg \in {"enumeration shutdown timeout", "shutdown error"} :
             tasks' = [Return(k, Err(msg)) EXCEPT ![k].shut_down = TRUE]
    /\ UNCHANGED but_evars

InitEnumerate ==
    /\ OffButEnumerator
    /\ tasks = [k \in ServerKeys |-> NewTask]

NextEnumerate ==
    \E k \in ServerKeys :
        \/ EnumCreateTransport(k)
        \/ EnumStart(k)
        \/ EnumListTools(k)
        \/ EnumShutDown(k)

SpecEnumerate == InitEnumerate /\ [][NextEnumerate]_vars

\* C14: whenever enumerate_stdio has launched the child, the client shutdown
\* is performed before it returns, whether it returns the tool set or an
\* error.
C14_ShutdownBeforeReturn ==
    \A k \in DOMAIN tasks :
        (tasks[k].at = "returned" /\ tasks[k].launched) => tasks[k].shut_down

(***************************************************************************)
(* modelmap: default.rs, load.rs, apply.rs.                                *)
(***************************************************************************)
S_sonnet == <<"s", "o", "n", "n", "e", "t">>
S_Sonnet == <<"S", "o", "n", "n", "e", "t">>
S_fast == <<"f", "a", "s", "t">>
S_gpt_5 == <<"g", "p", "t", "-", "5">>
S_gpt_4_1 == <<"g", "p", "t", "-", "4", ".", "1">>
S_openai == <<"o", "p", "e", "n", "a", "i">>
S_OpenAI == <<"O", "p", "e", "n", "A", "I">>
S_anthropic == <<"a", "n", "t", "h", "r", "o", "p", "i", "c">>
S_Anthropic == <<"A", "n", "t", "h", "r", "o", "p", "i", "c">>
S_Claude == <<"C", "l", "a", "u", "d", "e">>
S_azure == <<"a", "z", "u", "r", "e">>

Canonical(model, provider) == [model |-> model, provider |-> provider]

\* HashMap::insert
MapInsert(map, k, v) == [x \in DOMAIN map \cup {k} |-> IF x = k THEN v ELSE map[x]]

\* the pairs of a list inserted in order, each key lowercased
RECURSIVE InsertLowercased(_, _)
InsertLowercased(map, pairs) ==
    IF pairs = <<>> THEN map
    ELSE InsertLowercased(MapInsert(map, to_ascii_lowercase(pairs[1][1]), pairs[1][2]),
                          Tail(pairs))

default_provider_aliases ==
    InsertLowercased(<<>>, << <<S_openai, S_openai>>, <<S_OpenAI, S_openai>>,
                              <<S_anthropic, S_anthropic>>, <<S_Anthropic, S_anthropic>>,
                              <<S_Claude, S_anthropic>> >>)

\* two of the built-in tokens (the others are entries of the same shape)
default_model_tokens ==
    MapInsert(MapInsert(<<>>, S_sonnet, Canonical(S_gpt_5, Some(S_openai))),
              S_gpt_4_1, Canonical(S_gpt_4_1, Some(S_openai)))

load_default == [by_token |-> default_model_tokens,
                 provider_aliases |-> default_provider_aliases]

insert_entry(map, e) ==
    MapInsert(map, to_ascii_lowercase(e.token), Canonical(e.to_model, e.to_provider))

\* insert_entry for each alias of e, in order
RECURSIVE InsertAliases(_, _, _)
InsertAliases(map, e, aliases) ==
    IF aliases = <<>> THEN map
    ELSE InsertAliases(insert_entry(map, [e EXCEPT !.token = aliases[1]]), e, Tail(aliases))

RECURSIVE InsertMappings(_, _)
InsertMappings(map, mappings) ==
    IF mappings = <<>> THEN map
    ELSE LET e == mappings[1]
             withEntry == insert_entry(map, e)
             withAliases == IF e.aliases = None THEN withEntry
                            ELSE InsertAliases(withEntry, e, e.aliases[1])
         IN InsertMappings(withAliases, Tail(mappings))

build_model_map(raw) ==
    [by_token |-> InsertMappings(<<>>, raw.mappings),
     provider_aliases |->
        IF raw.provider_aliases = None THEN default_provider_aliases
        ELSE InsertLowercased(default_provider_aliases, raw.provider_aliases[1])]

\* the normalize_provider step of apply_to_agent
NormalizeProvider(r, map, opts) ==
    IF opts.normalize_provider /\ r.model_provider # None
    THEN LET key == to_ascii_lowercase(r.model_provider[1])
         IN IF key \in DOMAIN map.provider_aliases
                  /\ Some(map.provider_aliases[key]) # r.model_provider
            THEN [r EXCEPT !.model_provider = Some(map.provider_aliases[key])]
            ELSE r
    ELSE r

\* the by_token step of apply_to_agent
MapModel(r, map, opts) ==
    IF r.model = None THEN r
    ELSE LET key == to_ascii_lowercase(r.model[1])
         IN IF key \in DOMAIN map.by_token
            THEN LET canon == map.by_token[key]
                     withModel == [r EXCEPT !.model = Some(canon.model)]
                 IN IF canon.provider # None
                         /\ (r.model_provider = None \/ opts.override_provider)
                    THEN [withModel EXCEPT !.model_provider = canon.provider]
                    ELSE withModel
            ELSE r

\* apply_to_agent on agent.run (an Option<AgentRun>)
apply_to_agent(agent_run, map, opts) ==
    IF agent_run = None THEN None
    ELSE Some(MapModel(NormalizeProvider(agent_run[1], map, opts), map, opts))

RawEntries ==
    [token : {S_fast, S_Sonnet}, to_model : {S_gpt_5, S_sonnet},
     to_provider : {None, Some(S_OpenAI), Some(S_azure)},
     aliases : {None, Some(<<S_gpt_5>>)}]

RawMappingFiles ==
    [mappings : SeqsUpTo(RawEntries, MaxMappings),
     provider_aliases : {None, Some(<< <<S_OpenAI, S_Anthropic>> >>),
                               Some(<< <<S_azure, S_azure>> >>)}]

AgentRuns ==
    {None} \cup {Some(r) : r \in [model : {None, Some(S_fast), Some(S_Sonnet), Some(S_gpt_5)},
                                  model_provider : {None, Some(S_Claude), Some(S_OpenAI),
                                                    Some(S_azure)}]}

ApplyOptions == [normalize_provider : BOOLEAN, override_provider : BOOLEAN, strict : BOOLEAN]

\* prepare_all: load_from_file(path), the defaults when it fails
LoadModelMap ==
    /\ mpc = "load"
    /\ model_map' = IF map_file = None THEN load_default ELSE build_model_map(map_file[1])
    /\ mpc' = "apply"
    /\ UNCHANGED <<map_file, apply_opts, agent_runs, but_mvars>>

ApplyToAgent ==
    /\ mpc = "apply"
    /\ Len(agent_runs) <= MaxApplies
    /\ agent_runs' = Append(agent_runs,
                            apply_to_agent(agent_runs[Len(agent_runs)], model_map, apply_opts))
    /\ UNCHANGED <<map_file, model_map, apply_opts, mpc, but_mvars>>

InitModelMap ==
    /\ OffButModelMap
    /\ map_file \in {None} \cup {Some(f) : f \in RawMappingFiles}
    /\ model_map = <<>>
    /\ apply_opts \in ApplyOptions
    /\ agent_runs \in {<<r>> : r \in AgentRuns}
    /\ mpc = "load"

NextModelMap ==
    \/ LoadModelMap
    \/ ApplyToAgent

SpecModelMap == InitModelMap /\ [][NextModelMap]_vars

\* C15: applying apply_to_agent twice yields the same run.model and
\* run.model_provider as applying it once, for every ModelMap and every
\* ApplyOptions.
C15_ApplyIdempotent ==
    (Len(agent_runs) >= 3 /\ agent_runs[2] # None) =>
        /\ agent_runs[3][1].model = agent_runs[2][1].model
        /\ agent_runs[3][1].model_provider = agent_runs[2][1].model_provider

\* the provider as the alias normalization leaves it
AliasNormalized(provider) ==
    IF provider # None /\ apply_opts.normalize_provider
           /\ to_ascii_lowercase(provider[1]) \in DOMAIN model_map.provider_aliases
    THEN Some(model_map.provider_aliases[to_ascii_lowercase(provider[1])])
    ELSE provider

\* C16: on a by_token hit the model becomes the canonical model and the
\* provider is set if the agent had none, the canonical one under
\* override_provider, and otherwise the agent's (alias-normalized); on a miss
\* the model and the provider stay as they were apart from alias
\* normalization.
C16_ProviderAfterMapping ==
    (Len(agent_runs) >= 2 /\ agent_runs[1] # None /\ agent_runs[1][1].model # None) =>
        LET before == agent_runs[1][1]
            after == agent_runs[2][1]
            key == to_ascii_lowercase(before.model[1])
        IN IF key \in DOMAIN model_map.by_token
           THEN /\ after.model = Some(model_map.by_token[key].model)
                /\ before.model_provider = None => after.model_provider # None
                /\ (before.model_provider # None /\ ~apply_opts.override_provider)
                       => after.model_provider = AliasNormalized(before.model_provider)
                /\ apply_opts.override_provider
                       => after.model_provider = model_map.by_token[key].provider
           ELSE /\ after.model = before.model
                /\ after.model_provider = AliasNormalized(before.model_provider)

\* the lowercased tokens and aliases the file defines
RECURSIVE FileTokens(_)
FileTokens(mappings) ==
    IF mappings = <<>> THEN {}
    ELSE {to_ascii_lowercase(mappings[1].token)}
         \cup (IF mappings[1].aliases = None THEN {}
               ELSE {to_ascii_lowercase(mappings[1].aliases[1][i]) :
                        i \in 1..Len(mappings[1].aliases[1])})
         \cup FileTokens(Tail(mappings))

FileProviderAliases(raw) ==
    IF raw.provider_aliases = None THEN {}
    ELSE {to_ascii_lowercase(raw.provider_aliases[1][i][1]) :
             i \in 1..Len(raw.provider_aliases[1])}

\* C17: with a model-map file read, every built-in token the file does not
\* redefine still maps to its built-in canonical model and provider and every
\* built-in provider alias not redefined is still there; without a file the
\* map is exactly the built-in defaults.
C17_FileOverlaysDefaults ==
    mpc = "apply" =>
        IF map_file = None THEN model_map = load_default
        ELSE /\ \A t \in DOMAIN default_model_tokens \ FileTokens(map_file[1].mappings) :
                    /\ t \in DOMAIN model_map.by_token
                    /\ model_map.by_token[t] = default_model_tokens[t]
             /\ \A a \in DOMAIN default_provider_aliases \ FileProviderAliases(map_file[1]) :
                    /\ a \in DOMAIN model_map.provider_aliases
                    /\ model_map.provider_aliases[a] = default_provider_aliases[a]

(***************************************************************************)
(* toolmap: types.rs (default_mapping) and apply.rs (apply_mapping).       *)
(***************************************************************************)
Builtin(toggle) == [dest |-> "Builtin", toggle |-> toggle]
McpTool(server_key, tool, command) ==
    [dest |-> "McpTool", server_key |-> server_key, tool |-> tool, command |-> command]

\* a table from a list of <<key, value>> pairs inserted in order
RECURSIVE TableFrom(_)
TableFrom(pairs) ==
    IF pairs = <<>> THEN <<>>
    ELSE LET rest == TableFrom(SubSeq(pairs, 1, Len(pairs) - 1))
             last == pairs[Len(pairs)]
         IN [k \in DOMAIN rest \cup {last[1]} |-> IF k = last[1] THEN last[2] ELSE rest[k]]

default_mapping ==
    [vscode |->
        [map |-> TableFrom(<< <<"memory", McpTool("memory", "memory", "npx")>>,
                              <<"edit", Builtin("ApplyPatch")>>,
                              <<"new", Builtin("ApplyPatch")>>,
                              <<"search", Builtin("WebSearch")>>,
                              <<"fetch", Builtin("WebSearch")>>,
                              <<"githubRepo", Builtin("WebSearch")>>,
                              <<"runCommands", Builtin("TerminalAccess")>> >>),
         aliases |-> TableFrom(<< <<"Find Usages", "usages">>, <<"runTasks", "runTasks">>,
                                  <<"notebooks", "notebooks">>, <<"extensions", "extensions">>,
                                  <<"usages", "usages">>, <<"vscodeAPI", "vscodeAPI">>,
                                  <<"problems", "problems">>, <<"changes", "changes">>,
                                  <<"testFailure", "testFailure">>,
                                  <<"openSimpleBrowser", "openSimpleBrowser">> >>)],
     anthropic |->
        [map |-> TableFrom(<< <<"plan", Builtin("Plan")>>,
                              <<"apply_patch", Builtin("ApplyPatch")>>,
                              <<"view_image", Builtin("ViewImage")>>,
                              <<"web_search", Builtin("WebSearch")>>,
                              <<"Bash", Builtin("TerminalAccess")>>,
                              <<"Glob", Builtin("TerminalAccess")>>,
                              <<"Grep", Builtin("TerminalAccess")>>,
                              <<"Read", Builtin("TerminalAccess")>>,
                              <<"BashOutput", Builtin("TerminalAccess")>>,
                              <<"KillBash", Builtin("TerminalAccess")>> >>),
         aliases |-> TableFrom(<< <<"Edit", "apply_patch">>, <<"MultiEdit", "apply_patch">>,
                                  <<"Write", "apply_patch">>, <<"NotebookEdit", "apply_patch">>,
                                  <<"WebSearch", "web_search">>, <<"WebFetch", "web_search">>,
                                  <<"TodoWrite", "plan">> >>)]]

\* AgentRun::default(), the capability toggles of an AgentRun
DefaultRun ==
    [include_plan_tool |-> None, include_apply_patch_tool |-> None,
     include_view_image_tool |-> None, tools_web_search_request |-> None]

TableFor(provider, mapping) ==
    IF provider = "Vscode" THEN mapping.vscode ELSE mapping.anthropic

SetToggle(r, toggle) ==
    IF toggle = "Plan" THEN [r EXCEPT !.include_plan_tool = Some(TRUE)]
    ELSE IF toggle = "ApplyPatch" THEN [r EXCEPT !.include_apply_patch_tool = Some(TRUE)]
    ELSE IF toggle = "ViewImage" THEN [r EXCEPT !.include_view_image_tool = Some(TRUE)]
    ELSE IF toggle = "WebSearch" THEN [r EXCEPT !.tools_web_search_request = Some(TRUE)]
    ELSE r

\* mutant: a Namespaced reference whose server the table also maps is dropped
MapRef_dropmapped(st, r, table, allow_custom_servers) ==
    IF r.kind = "Namespaced"
    THEN IF r.server_key \in DOMAIN table.map THEN st
         ELSE [st EXCEPT !.new_refs = Append(@, r)]
    ELSE st

\* mutant: the custom server is returned whatever allow_custom_servers is
MapRef_customalways(st, r, table, allow_custom_servers) ==
    IF r.kind = "Namespaced"
    THEN [st EXCEPT !.new_refs = Append(@, r)]
    ELSE LET key == IF r.tool \in DOMAIN table.aliases THEN table.aliases[r.tool] ELSE r.tool
         IN IF key \in DOMAIN table.map
            THEN LET d == table.map[key]
                 IN IF d.dest = "Builtin"
                    THEN [st EXCEPT !.run = SetToggle(@, d.toggle)]
                    ELSE [st EXCEPT
                            !.new_refs = Append(@, Namespaced(d.server_key, d.tool)),
                            !.custom_servers =
                                Append(@, [key |-> d.server_key, command |-> d.command,
                                           origin |-> Origin("Mapping", None,
                                                             Some("toolmap default"))])]
            ELSE [st EXCEPT !.new_refs = Append(@, Bare(key))]

\* one turn of apply_mapping's loop over the references
MapRef(st, r, table, allow_custom_servers) ==
    IF r.kind = "Namespaced"
    THEN [st EXCEPT !.new_refs = Append(@, r)]
    ELSE LET key == IF r.tool \in DOMAIN table.aliases THEN table.aliases[r.tool] ELSE r.tool
         IN IF key \in DOMAIN table.map
            THEN LET d == table.map[key]
                 IN IF d.dest = "Builtin"
                    THEN [st EXCEPT !.run = SetToggle(@, d.toggle)]
                    ELSE [st EXCEPT
                            !.new_refs = Append(@, Namespaced(d.server_key, d.tool)),
                            !.custom_servers =
                                IF allow_custom_servers
                                THEN Append(@, [key |-> d.server_key, command |-> d.command,
                                                origin |-> Origin("Mapping", None,
                                                                  Some("toolmap default"))])
                                ELSE @]
            ELSE [st EXCEPT !.new_refs = Append(@, Bare(key))]

RECURSIVE MapRefs(_, _, _, _)
MapRefs(st, refs, table, allow_custom_servers) ==
    IF refs = <<>> THEN st
    ELSE MapRefs(MapRef(st, refs[1], table, allow_custom_servers), Tail(refs),
                 table, allow_custom_servers)

\* apply_mapping: the agent afterwards and the custom servers returned
apply_mapping(provider, agent, mapping, allow_custom_servers) ==
    IF agent.mcp_tool_refs = None
    THEN [agent |-> agent, custom_servers |-> <<>>]
    ELSE LET st == MapRefs([new_refs |-> <<>>,
                            run |-> IF agent.run = None THEN DefaultRun ELSE agent.run[1],
                            custom_servers |-> <<>>],
                           agent.mcp_tool_refs[1], TableFor(provider, mapping),
                           allow_custom_servers)
         IN [agent |-> [mcp_tool_refs |-> IF st.new_refs = <<>> THEN None
                                          ELSE Some(st.new_refs),
                        run |-> Some(st.run)],
             custom_servers |-> st.custom_servers]

ProviderIds == {"Codex", "Anthropic", "Vscode"}

\* references a parser may produce
MappedToolRefs ==
    {Namespaced("srv1", "t1"), Namespaced("memory", "memory"), Namespaced("edit", "plan"),
     Bare("memory"), Bare("edit"), Bare("Edit"), Bare("Bash"), Bare("Find Usages"),
     Bare("plan")}

\* the parsers give no list or a non-empty one
ParsedRefs == {None} \cup {Some(q) : q \in SeqsUpTo(MappedToolRefs, MaxRefs) \ {<<>>}}

ParsedRuns == {None, Some(DefaultRun), Some([DefaultRun EXCEPT !.include_plan_tool = Some(FALSE)])}

ApplyMapping ==
    /\ tm_cfgs # <<>>
    /\ Len(tm_cfgs) <= MaxApplies
    /\ LET out == apply_mapping(tm_args.provider, tm_cfgs[Len(tm_cfgs)], default_mapping,
                                tm_args.allow_custom_servers)
       IN /\ tm_cfgs' = Append(tm_cfgs, out.agent)
          /\ tm_customs' = Append(tm_customs, out.custom_servers)
    /\ UNCHANGED <<tm_args, but_tvars>>

InitToolMap ==
    /\ OffButToolMap
    /\ tm_args \in [provider : ProviderIds, allow_custom_servers : BOOLEAN]
    /\ tm_cfgs \in {<<c>> : c \in [mcp_tool_refs : ParsedRefs, run : ParsedRuns]}
    /\ tm_customs = <<>>

NextToolMap == ApplyMapping

SpecToolMap == InitToolMap /\ [][NextToolMap]_vars

\* every reference of the list is Namespaced
AllNamespaced(refs) ==
    refs # None /\ \A i \in 1..Len(refs[1]) : refs[1][i].kind = "Namespaced"

\* the capability toggles of an Option<AgentRun>, those of the default when absent
TogglesOf(r) == IF r = None THEN DefaultRun ELSE r[1]

\* C18: for an agent whose references are all Namespaced, every application
\* of apply_mapping leaves mcp_tool_refs equal to the input (same references,
\* same order), sets no capability toggle and returns no custom server,
\* whatever the provider and allow_custom_servers.
C18_NamespacedPassThrough ==
    (tm_cfgs # <<>> /\ AllNamespaced(tm_cfgs[1].mcp_tool_refs)) =>
        \A n \in 2..Len(tm_cfgs) :
            /\ tm_cfgs[n].mcp_tool_refs = tm_cfgs[1].mcp_tool_refs
            /\ TogglesOf(tm_cfgs[n].run) = TogglesOf(tm_cfgs[1].run)
            /\ tm_customs[n - 1] = <<>>

\* two applications to an agent with two Namespaced references, one of them
\* to a server key the provider's table also knows as a tool
C18_Witness ==
    /\ Len(tm_cfgs) = 3
    /\ AllNamespaced(tm_cfgs[1].mcp_tool_refs)
    /\ Len(tm_cfgs[1].mcp_tool_refs[1]) = 2
    /\ \E i \in 1..2 :
           tm_cfgs[1].mcp_tool_refs[1][i].server_key \in DOMAIN TableFor(tm_args.provider, default_mapping).map
    /\ tm_cfgs[1].mcp_tool_refs[1][1] # tm_cfgs[1].mcp_tool_refs[1][2]
    /\ tm_cfgs[3].mcp_tool_refs = tm_cfgs[1].mcp_tool_refs

(***************************************************************************)
(* model/naming.rs: safe_name                                              *)
(***************************************************************************)
\* characters of a display name
MaxNameLen == 3

Digits == <<"0", "1", "2", "3", "4", "5", "6", "7", "8", "9">>

\* char::is_ascii_alphanumeric
is_ascii_alphanumeric(c) ==
    \/ \E i \in DOMAIN UpperCase : UpperCase[i] = c
    \/ \E i \in DOMAIN LowerCase : LowerCase[i] = c
    \/ \E i \in DOMAIN Digits : Digits[i] = c

\* the loop of safe_name: one pushed character per character of the name
PushEach(name) ==
    [i \in DOMAIN name |->
        IF is_ascii_alphanumeric(name[i])
        THEN to_ascii_lowercase_char(name[i])
        ELSE "_"]

\* str::trim_matches(c): drop the leading and the trailing run of c
RECURSIVE trim_start_matches(_, _)
trim_start_matches(str, c) ==
    IF str # <<>> /\ Head(str) = c THEN trim_start_matches(Tail(str), c) ELSE str

RECURSIVE trim_end_matches(_, _)
trim_end_matches(str, c) ==
    IF str # <<>> /\ str[Len(str)] = c
    THEN trim_end_matches(SubSeq(str, 1, Len(str) - 1), c)
    ELSE str

trim_matches(str, c) == trim_end_matches(trim_start_matches(str, c), c)

safe_name(name) == trim_matches(PushEach(name), "_")

\* the characters display names are drawn from: a lowercase and an uppercase
\* letter, a digit, the underscore, an ASCII separator, a non-ASCII letter
NameChars == {"a", "B", "7", "_", "-", "é"}

RECURSIVE StringsUpTo(_)
StringsUpTo(n) ==
    IF n = 0 THEN {<<>>}
    ELSE LET shorter == StringsUpTo(n - 1)
         IN  shorter \cup {Append(w, c) : w \in shorter, c \in NameChars}

DisplayNames == StringsUpTo(MaxNameLen)

\* safe_name applied to the last result
ApplySafeName ==
    /\ names # <<>>
    /\ Len(names) <= MaxApplies
    /\ names' = Append(names, safe_name(names[Len(names)]))
    /\ UNCHANGED but_nvars

InitSafeName ==
    /\ OffButNaming
    /\ \E x \in DisplayNames : names = <<x>>

NextSafeName == ApplySafeName

SpecSafeName == InitSafeName /\ [][NextSafeName]_vars

\* ---- vocabulary of the properties
SafeChars == {LowerCase[i] : i \in DOMAIN LowerCase}
             \cup {Digits[i] : i \in DOMAIN Digits} \cup {"_"}

OnlySafeChars(str) == \A i \in DOMAIN str : str[i] \in SafeChars

\* C19: for every string x, safe_name(safe_name(x)) = safe_name(x), and
\* safe_name(x) has only characters of [a-z0-9_], is non-empty, and neither
\* starts nor ends with '_'.
C19_SafeNameShape ==
    /\ Len(names) >= 2 =>
          /\ OnlySafeChars(names[2])
          /\ names[2] # <<>>
          /\ Head(names[2]) # "_"
          /\ names[2][Len(names[2])] # "_"
    /\ Len(names) >= 3 => names[3] = names[2]

(***************************************************************************)
(* main.rs: the agents knobs, merged from environment and user config      *)
(***************************************************************************)
\* entries of a *_dirs list in the user config
MaxExtraDirs == 2

\* env_flags! defaults of the two numeric knobs
AGENTS_MCP_ENUM_TIMEOUT_MS == 4000
AGENTS_MCP_MAX_SERVERS == 128

FlagKnobs ==
    {"enable_codex", "enable_anthropic", "enable_vscode", "mcp_discovery",
     "limit_mcp_to_referenced", "enumerate", "enum_strict", "toolmap_enable",
     "toolmap_allow_custom_servers", "model_map_enable", "model_map_strict",
     "model_map_override_provider", "model_map_normalize_provider"}
NumberKnobs == {"enum_timeout_ms", "enum_max_servers"}
PrefixKnobs == {"prefix_codex", "prefix_anthropic", "prefix_vscode"}
DirsKnobs == {"codex_dirs", "anthropic_dirs", "vscode_dirs"}
PathKnobs == {"vscode_user_mcp", "model_map_file"}
PlainKnobs == FlagKnobs \cup NumberKnobs \cup PrefixKnobs
Knobs == PlainKnobs \cup DirsKnobs \cup PathKnobs \cup {"filter", "enum_fallback_all"}

\* the env_flags! block: the variable of each knob
EnvName(k) ==
    CASE k = "enable_codex" -> "AGENTS_ENABLE_CODEX"
      [] k = "enable_anthropic" -> "AGENTS_ENABLE_ANTHROPIC"
      [] k = "enable_vscode" -> "AGENTS_ENABLE_VSCODE"
      [] k = "codex_dirs" -> "AGENTS_DIRS"
      [] k = "anthropic_dirs" -> "ANTHROPIC_AGENTS_DIRS"
      [] k = "vscode_dirs" -> "VSCODE_CHATMODES_DIRS"
      [] k = "prefix_codex" -> "AGENTS_PREFIX_CODEX"
      [] k = "prefix_anthropic" -> "AGENTS_PREFIX_ANTHROPIC"
      [] k = "prefix_vscode" -> "AGENTS_PREFIX_VSCODE"
      [] k = "filter" -> "AGENTS_FILTER"
      [] k = "mcp_discovery" -> "AGENTS_MCP_DISCOVERY"
      [] k = "vscode_user_mcp" -> "VSCODE_USER_MCP"
      [] k = "limit_mcp_to_referenced" -> "AGENTS_MCP_LIMIT_REFERENCED"
      [] k = "enumerate" -> "AGENTS_MCP_ENUMERATE"
      [] k = "enum_timeout_ms" -> "AGENTS_MCP_ENUM_TIMEOUT_MS"
      [] k = "enum_max_servers" -> "AGENTS_MCP_MAX_SERVERS"
      [] k = "enum_strict" -> "AGENTS_MCP_ENUM_STRICT"
      [] k = "enum_fallback_all" -> "AGENTS_MCP_ENUM_FALLBACK"
      [] k = "toolmap_enable" -> "AGENTS_TOOLMAP_ENABLE"
      [] k = "toolmap_allow_custom_servers" -> "AGENTS_TOOLMAP_ALLOW_CUSTOM_SERVERS"
      [] k = "model_map_enable" -> "AGENTS_MODEL_MAP_ENABLE"
      [] k = "model_map_file" -> "AGENTS_MODEL_MAP_FILE"
      [] k = "model_map_strict" -> "AGENTS_MODEL_MAP_STRICT"
      [] k = "model_map_override_provider" -> "AGENTS_MODEL_MAP_OVERRIDE_PROVIDER"
      [] k = "model_map_normalize_provider" -> "AGENTS_MODEL_MAP_NORMALIZE_PROVIDER"

\* the env_flags! block: the default of each variable
EnvDefault(k) ==
    CASE k \in {"enable_codex", "enable_anthropic", "enable_vscode", "mcp_discovery",
                "limit_mcp_to_referenced", "enumerate", "toolmap_enable",
                "toolmap_allow_custom_servers", "model_map_enable",
                "model_map_normalize_provider"} -> TRUE
      [] k \in {"enum_strict", "model_map_strict", "model_map_override_provider"} -> FALSE
      [] k = "enum_timeout_ms" -> AGENTS_MCP_ENUM_TIMEOUT_MS
      [] k = "enum_max_servers" -> AGENTS_MCP_MAX_SERVERS
      [] k = "prefix_codex" -> <<"a", "g", "e", "n", "t", "_">>
      [] k = "prefix_anthropic" -> <<"a", "n", "t", "h", "_">>
      [] k = "prefix_vscode" -> <<"v", "s", "c", "_">>
      [] k = "enum_fallback_all" -> <<"n", "o", "n", "e">>
      [] OTHER -> <<>>

\* a static of the env_flags! block, dereferenced: the variable's (parsed)
\* value when it is set, its default otherwise
EnvFlag(k, e) == IF e = None THEN EnvDefault(k) ELSE e[1]

\* env_set
env_set(e) == e # None

\* user_cfg.as_ref().and_then(|c| c.agents.as_ref()).and_then(|a| a.<key>)
CfgField(cfg, k) ==
    IF cfg = None THEN None
    ELSE IF cfg[1].agents = None THEN None
    ELSE cfg[1].agents[1][k]

\* Option::unwrap_or
unwrap_or(opt, default) == IF opt = None THEN default ELSE opt[1]

\* ---- paths
S_tilde_slash == <<"~", "/">>

\* PathBuf::join: an absolute path replaces the base
PathJoin(base, rel) ==
    IF starts_with(rel, <<"/">>) THEN rel
    ELSE IF base # <<>> /\ base[Len(base)] = "/" THEN base \o rel
    ELSE base \o <<"/">> \o rel

\* str::trim_start_matches("~/"): every leading repetition goes
RECURSIVE trim_start_matches_str(_, _)
trim_start_matches_str(str, prefix) ==
    IF starts_with(str, prefix)
    THEN trim_start_matches_str(SubSeq(str, Len(prefix) + 1, Len(str)), prefix)
    ELSE str

\* main's closure expand
expand(p, home) ==
    IF starts_with(p, S_tilde_slash) /\ home # None
    THEN PathJoin(home[1], trim_start_matches_str(p, S_tilde_slash))
    ELSE p

\* config::expand_home: strip_prefix removes one "~/"
expand_home(path, home) ==
    IF starts_with(path, S_tilde_slash) /\ home # None
    THEN PathJoin(home[1], SubSeq(path, Len(S_tilde_slash) + 1, Len(path)))
    ELSE path

\* WORKSPACE_DIR
workspace_dir == <<"/", "w">>

\* SWITCHBOARD_HOME is not set: $HOME/.switchboard, else <workspace>/.switchboard
sb_home(home) ==
    IF home # None THEN PathJoin(home[1], <<".", "s", "w", "i", "t", "c", "h", "b", "o", "a", "r", "d">>)
    ELSE PathJoin(workspace_dir, <<".", "s", "w", "i", "t", "c", "h", "b", "o", "a", "r", "d">>)

\* ---- the scan directory lists
\* str::split(',')
RECURSIVE split_comma(_)
split_comma(str) ==
    IF \E i \in DOMAIN str : str[i] = ","
    THEN LET i == CHOOSE j \in DOMAIN str :
                      str[j] = "," /\ \A h \in 1..(j - 1) : str[h] # ","
         IN  <<SubSeq(str, 1, i - 1)>> \o split_comma(SubSeq(str, i + 1, Len(str)))
    ELSE <<str>>

\* str::trim (the whitespace of these inputs is the space)
trim(str) == trim_matches(str, " ")

\* .filter(|s| !s.trim().is_empty()).map(|s| expand(s.trim())).collect()
RECURSIVE ExpandNonEmpty(_, _)
ExpandNonEmpty(parts, home) ==
    IF parts = <<>> THEN <<>>
    ELSE IF trim(Head(parts)) = <<>> THEN ExpandNonEmpty(Tail(parts), home)
    ELSE <<expand(trim(Head(parts)), home)>> \o ExpandNonEmpty(Tail(parts), home)

\* the vec![..] of each list
DefaultDirs(k, home) ==
    CASE k = "codex_dirs" ->
            <<PathJoin(workspace_dir, <<".", "a", "g", "e", "n", "t", "s">>),
              PathJoin(sb_home(home), <<"a", "g", "e", "n", "t", "s">>),
              expand(<<"~", "/", ".", "a", "g", "e", "n", "t", "s">>, home)>>
      [] k = "anthropic_dirs" ->
            <<PathJoin(workspace_dir, <<".", "c", "l", "a", "u", "d", "e", "/", "a", "g", "e", "n", "t", "s">>),
              PathJoin(sb_home(home), <<"a", "g", "e", "n", "t", "s">>),
              expand(<<"~", "/", ".", "c", "l", "a", "u", "d", "e", "/", "a", "g", "e", "n", "t", "s">>, home)>>
      [] k = "vscode_dirs" ->
            <<PathJoin(workspace_dir, <<".", "g", "i", "t", "h", "u", "b", "/", "c", "h", "a", "t", "m", "o", "d", "e", "s">>),
              PathJoin(sb_home(home), <<"c", "h", "a", "t", "m", "o", "d", "e", "s">>),
              expand(<<"~", "/", ".", "c", "h", "a", "t", "m", "o", "d", "e", "s">>, home)>>

\* let codex_dirs = if !(*AGENTS_DIRS).is_empty() { .. } else { vec![..] }
env_or_default_dirs(k, e, home) ==
    IF EnvFlag(k, e) # <<>>
    THEN ExpandNonEmpty(split_comma(EnvFlag(k, e)), home)
    ELSE DefaultDirs(k, home)

\* for p in extra { if !dirs.contains(&pb) { dirs.push(pb) } }
RECURSIVE PushMissing(_, _, _)
PushMissing(dirs, extra, home) ==
    IF extra = <<>> THEN dirs
    ELSE LET pb == expand_home(Head(extra), home)
         IN  PushMissing(IF \E i \in DOMAIN dirs : dirs[i] = pb
                         THEN dirs ELSE Append(dirs, pb),
                         Tail(extra), home)

\* the user config replaces the list instead of extending it
scan_dirs_replacing(k, e, cfg, home) ==
    IF ~env_set(e) /\ CfgField(cfg, k) # None
    THEN PushMissing(<<>>, CfgField(cfg, k)[1], home)
    ELSE env_or_default_dirs(k, e, home)

scan_dirs(k, e, cfg, home) ==
    IF ~env_set(e) /\ CfgField(cfg, k) # None
    THEN PushMissing(env_or_default_dirs(k, e, home), CfgField(cfg, k)[1], home)
    ELSE env_or_default_dirs(k, e, home)

\* ---- the other knobs
\* enable_*, prefix_*, mcp_discovery, limit_mcp_to_referenced, enumerate,
\* enum_timeout_ms, enum_max_servers, enum_strict, toolmap_*, model_map_enable,
\* model_map_strict, model_map_override_provider, model_map_normalize_provider
plain_knob(k, e, cfg) ==
    IF env_set(e) THEN EnvFlag(k, e)
    ELSE unwrap_or(CfgField(cfg, k), EnvFlag(k, e))

filter_arg(e, cfg) ==
    IF EnvFlag("filter", e) # <<>> \/ env_set(e)
    THEN Some(EnvFlag("filter", e))
    ELSE CfgField(cfg, "filter")

\* vscode_user_mcp, model_map_file
path_knob(k, e, cfg, home) ==
    IF env_set(e) /\ EnvFlag(k, e) # <<>>
    THEN Some(EnvFlag(k, e))
    ELSE IF CfgField(cfg, k) = None THEN None
    ELSE Some(expand_home(CfgField(cfg, k)[1], home))

S_all == <<"a", "l", "l">>

enum_fallback_all(e, cfg) ==
    IF env_set(e)
    THEN eq_ignore_ascii_case(EnvFlag("enum_fallback_all", e), S_all)
    ELSE unwrap_or(CfgField(cfg, "enum_fallback_all"),
                   eq_ignore_ascii_case(EnvFlag("enum_fallback_all", e), S_all))

\* what main passes to default_settings for the knob
Resolve(k, e, cfg, home) ==
    CASE k \in PlainKnobs -> plain_knob(k, e, cfg)
      [] k \in DirsKnobs -> scan_dirs(k, e, cfg, home)
      [] k \in PathKnobs -> path_knob(k, e, cfg, home)
      [] k = "filter" -> filter_arg(e, cfg)
      [] k = "enum_fallback_all" -> enum_fallback_all(e, cfg)

\* ---- the inputs
\* values the environment variable of a knob may hold
EnvStrings(k) ==
    CASE k \in FlagKnobs -> BOOLEAN
      [] k = "enum_timeout_ms" -> {AGENTS_MCP_ENUM_TIMEOUT_MS, 1}
      [] k = "enum_max_servers" -> {AGENTS_MCP_MAX_SERVERS, 1}
      [] k \in PrefixKnobs -> {<<>>, <<"x", "_">>}
      [] k \in DirsKnobs -> {<<>>, <<",">>, <<"/", "a">>, <<" ", "/", "a", " ", ",", "/", "b">>, <<"~", "/", "a">>}
      [] k \in PathKnobs -> {<<>>, <<"/", "m">>}
      [] k = "filter" -> {<<>>, <<"d", "e", "v">>}
      [] k = "enum_fallback_all" -> {<<>>, <<"a", "l", "l">>, <<"A", "L", "L">>, <<"n", "o", "n", "e">>}

ExtraDirChoices == {<<"/", "c">>, <<"~", "/", ".", "a", "g", "e", "n", "t", "s">>, <<"/", "w", "/", ".", "a", "g", "e", "n", "t", "s">>}

RECURSIVE DirListsUpTo(_)
DirListsUpTo(n) ==
    IF n = 0 THEN {<<>>}
    ELSE LET shorter == DirListsUpTo(n - 1)
         IN  shorter \cup {Append(l, d) : l \in shorter, d \in ExtraDirChoices}

\* values the [agents] key of a knob may hold
CfgValues(k) ==
    CASE k \in FlagKnobs -> BOOLEAN
      [] k = "enum_timeout_ms" -> {AGENTS_MCP_ENUM_TIMEOUT_MS, 1}
      [] k = "enum_max_servers" -> {AGENTS_MCP_MAX_SERVERS, 1}
      [] k \in PrefixKnobs -> {<<>>, <<"y", "_">>}
      [] k \in DirsKnobs -> DirListsUpTo(MaxExtraDirs)
      [] k \in PathKnobs -> {<<"/", "n">>, <<"~", "/", "n">>}
      [] k = "filter" -> {<<>>, <<"o", "p", "s">>}
      [] k = "enum_fallback_all" -> BOOLEAN

AgentsCfg(k, v) == [key \in Knobs |-> IF key = k THEN v ELSE None]

\* no config.toml (or an unreadable one), one without [agents], one with it
UserConfigs(k) ==
    {None, Some([agents |-> None])}
    \cup {Some([agents |-> Some(AgentsCfg(k, v))]) :
              v \in {None} \cup {Some(c) : c \in CfgValues(k)}}

HomeValues == {None, Some(<<"/", "h">>)}

\* main: the knob's value is computed and handed to default_settings
ResolveKnob ==
    /\ knob \in Knobs
    /\ effective = None
    /\ effective' = Some(Resolve(knob, knob_env, user_cfg, home_env))
    /\ UNCHANGED <<knob, knob_env, home_env, user_cfg>>
    /\ UNCHANGED but_cvars

InitConfig ==
    /\ OffButConfig
    /\ knob \in Knobs
    /\ knob_env \in {None} \cup {Some(s) : s \in EnvStrings(knob)}
    /\ home_env \in HomeValues
    /\ user_cfg \in UserConfigs(knob)
    /\ effective = None

NextConfig == ResolveKnob

SpecConfig == InitConfig /\ [][NextConfig]_vars

\* ---- vocabulary of the properties
\* the value the environment variable gives the knob
EnvValue(k, e, home) ==
    CASE k \in PlainKnobs -> e[1]
      [] k \in DirsKnobs -> ExpandNonEmpty(split_comma(e[1]), home)
      [] k \in PathKnobs -> Some(e[1])
      [] k = "filter" -> Some(e[1])
      [] k = "enum_fallback_all" -> eq_ignore_ascii_case(e[1], S_all)

RECURSIVE ExpandAll(_, _)
ExpandAll(list, home) ==
    IF list = <<>> THEN <<>>
    ELSE <<expand_home(Head(list), home)>> \o ExpandAll(Tail(list), home)

\* the value the user config gives the knob
CfgValue(k, c, home) ==
    CASE k \in PlainKnobs -> c[1]
      [] k \in DirsKnobs -> ExpandAll(c[1], home)
      [] k \in PathKnobs -> Some(expand_home(c[1], home))
      [] k = "filter" -> Some(c[1])
      [] k = "enum_fallback_all" -> c[1]

\* the built-in default of the knob
DefaultValue(k, home) ==
    CASE k \in PlainKnobs -> EnvDefault(k)
      [] k \in DirsKnobs -> DefaultDirs(k, home)
      [] k \in PathKnobs -> None
      [] k = "filter" -> None
      [] k = "enum_fallback_all" -> FALSE

\* environment if set, else user config if present, else default
Pick(k, e, c, home) ==
    IF e # None THEN EnvValue(k, e, home)
    ELSE IF c # None THEN CfgValue(k, c, home)
    ELSE DefaultValue(k, home)

EmptyAsUnset(e) == IF e = Some(<<>>) THEN None ELSE e

\* the defaults, then the user-config entries not yet in the list
Extended(defaults, c, home) ==
    IF c = None THEN defaults ELSE PushMissing(defaults, c[1], home)

\* C20: every agents knob takes the environment variable's value if the
\* variable is set, else the user-config value if present, else the built-in
\* default; the *_dirs lists, filter, vscode_user_mcp, model_map_file and
\* enum_fallback_all included, and an empty environment variable included.
C20_OneRuleForEveryKnob ==
    effective # None =>
        effective[1] = Pick(knob, knob_env, CfgField(user_cfg, knob), home_env)

\* C20 as amended: the rule holds for every knob but the path knobs and the
\* *_dirs lists. vscode_user_mcp and model_map_file treat an empty variable
\* as unset. A *_dirs list is the variable's list when the variable is
\* non-empty; otherwise it is the default list, which the user-config entries
\* extend (they do not replace it), and only when the variable is not set.
C20_OneRuleButPathsAndDirs ==
    effective # None =>
        LET c == CfgField(user_cfg, knob)
        IN  CASE knob \in PathKnobs ->
                    effective[1] = Pick(knob, EmptyAsUnset(knob_env), c, home_env)
              [] knob \in DirsKnobs ->
                    effective[1] =
                        IF EmptyAsUnset(knob_env) # None
                        THEN EnvValue(knob, knob_env, home_env)
                        ELSE IF knob_env = None
                        THEN Extended(DefaultDirs(knob, home_env), c, home_env)
                        ELSE DefaultDirs(knob, home_env)
              [] OTHER ->
                    effective[1] = Pick(knob, knob_env, c, home_env)

\* a *_dirs list resolved with the variable unset and two user-config
\* entries, one of them already among the defaults
C20_Witness ==
    /\ effective # None
    /\ knob = "codex_dirs"
    /\ knob_env = None
    /\ CfgField(user_cfg, knob) # None
    /\ Len(CfgField(user_cfg, knob)[1]) = 2
    /\ Len(effective[1]) = Len(DefaultDirs(knob, home_env)) + 1

(***************************************************************************)
(* Bare references under enumeration.                                      *)
(***************************************************************************)
\* the servers whose enumerated tools contain t
Exposing(t) == {k \in DOMAIN inventory : t \in inventory[k]}

\* reference i of agent a leaves server k to the rest: another reference of
\* the agent is a reason for k, or no reference is a reason for any server
\* and the agent is not limited to referenced servers
AttachedOtherwise(a, i, k) ==
    \/ \E j \in 1..Len(RefsOf(a)) :
           /\ j # i
           /\ \/ NamespacedCovers(RefsOf(a)[j], k)
              \/ BareMatches(RefsOf(a)[j], k)
    \/ k \in DOMAIN inventory /\ NothingSelected(a) /\ ~settings.limit_mcp_to_referenced

EnumerationFailed(k) ==
    /\ k \in discovered
    /\ k \in Candidates(agents, discovered)
    /\ Cardinality(Candidates(agents, discovered)) <= settings.enum_max_servers
    /\ k \notin pending
    /\ k \notin DOMAIN inventory

\* the step from the joined tasks to the gated agents
GateStep == lpc = "join" /\ lpc' = "done"

\* C25 (strict half): with enum_strict a server whose enumeration failed is
\* dropped from the discovered set and attached to no agent
StrictDrops ==
    [][(GateStep /\ settings.enum_strict) =>
          \A k \in ServerKeys :
              EnumerationFailed(k) =>
                  /\ k \notin discovered'
                  /\ \A a \in AgentIds : k \notin agents'[a].mcp_servers]_vars

\* C25: with enum_strict = true a server whose enumeration fails or times out
\* is dropped altogether; with enum_strict = false it is only left out of the
\* inventory: it stays in the discovered set, and the attach-all fallback
\* (an agent none of whose references selects a server, not limited to
\* referenced servers) still attaches it.
C25_LenientKeepsDiscovered ==
    [][GateStep =>
          \A k \in ServerKeys :
              EnumerationFailed(k) =>
                  IF settings.enum_strict
                  THEN /\ k \notin discovered'
                       /\ \A a \in AgentIds : k \notin agents'[a].mcp_servers
                  ELSE /\ k \in discovered'
                       /\ \A a \in AgentIds :
                              (NothingSelected(a) /\ ~settings.limit_mcp_to_referenced)
                                  => k \in agents'[a].mcp_servers]_vars

(***************************************************************************)
(* Attachment without enumeration.                                         *)
(***************************************************************************)
\* the server keys the namespaced references of agent a name
NamedKeys(a) ==
    {RefsOf(a)[i].server_key :
        i \in {j \in 1..Len(RefsOf(a)) : RefsOf(a)[j].kind = "Namespaced"}}

\* C27: without enumeration and with a non-empty discovered set: if
\* limit_to_referenced is false every agent gets every discovered server; if
\* it is true, an agent with a bare reference gets every discovered server,
\* an agent with only namespaced references gets exactly the discovered
\* servers whose key it names, and an agent with no references gets none.
C27_AttachWithoutEnumeration ==
    (lpc = "done" /\ ~settings.enumerate /\ discovered # {}) =>
        \A a \in AgentIds :
            IF ~settings.limit_mcp_to_referenced THEN Attached(a) = discovered
            ELSE IF HasBare(RefsOf(a)) THEN Attached(a) = discovered
            ELSE IF RefsOf(a) # <<>> THEN Attached(a) = NamedKeys(a) \cap discovered
            ELSE Attached(a) = {}

\* limited to referenced servers, without enumeration: one agent with a bare
\* reference got both discovered servers, the other names one of them and got
\* that one only
C27_Witness ==
    /\ lpc = "done"
    /\ ~settings.enumerate
    /\ settings.limit_mcp_to_referenced
    /\ discovered = ServerKeys
    /\ \E a, b \in AgentIds :
          /\ HasBare(RefsOf(a))
          /\ Attached(a) = discovered
          /\ RefsOf(b) # <<>>
          /\ ~HasBare(RefsOf(b))
          /\ Cardinality(Attached(b)) = 1

CompletionsRead(c) == SelectSeq(Read(c), LAMBDA e : e.kind = "TaskComplete")

\* the Shutdown ops the call has submitted
ShutdownsSent(c) == SelectSeq(run[c].ops, LAMBDA o : o.op = "Shutdown")

ReturnedOk(c) == Returned(c) /\ result[c][1].ok

\* C23 (as stated): ShutdownComplete is accepted as success only while
\* draining: whenever exec_task returns ok = true, a TaskComplete event was
\* received, and a Shutdown op was submitted, earlier in the same call.
C23_OkOnlyAfterDraining ==
    \A c \in Slots :
        ReturnedOk(c) => (CompletionsRead(c) # <<>> /\ ShutdownsSent(c) # <<>>)

\* C23 (amended): whenever exec_task returns ok = true the last event it
\* received was ShutdownComplete; a Shutdown op was submitted earlier in the
\* call exactly when a TaskComplete was received earlier, which the call
\* does not require.
C23_OkOnShutdownCompleteInAnyState ==
    \A c \in Slots :
        ReturnedOk(c) =>
            /\ EndedByShutdownComplete(c)
            /\ ShutdownsSent(c) # <<>> <=> CompletionsRead(c) # <<>>

\* a call that returned ok = true on a ShutdownComplete received while
\* running, and one that returned it after draining
C23_Witness ==
    \E c, d \in Slots :
        /\ ReturnedOk(c) /\ CompletionsRead(c) = <<>> /\ ShutdownsSent(c) = <<>>
        /\ ReturnedOk(d) /\ CompletionsRead(d) # <<>> /\ ShutdownsSent(d) # <<>>

\* C24 (as stated): within one exec_task the Shutdown op is submitted exactly
\* once, on the first TaskComplete, however many further TaskComplete events
\* the driver emits before ShutdownComplete.
C24_ShutdownOnce ==
    \A c \in Slots :
        CompletionsRead(c) # <<>> => Len(ShutdownsSent(c)) = 1

\* C24 (amended): within one exec_task a Shutdown op is submitted on every
\* TaskComplete received: as many Shutdown ops as TaskComplete events.
C24_ShutdownPerTaskComplete ==
    \A c \in Slots : Len(ShutdownsSent(c)) = Len(CompletionsRead(c))

\* a call that received two TaskComplete events and submitted Shutdown twice
C24_Witness ==
    \E c \in Slots :
        /\ Len(CompletionsRead(c)) = 2
        /\ Len(ShutdownsSent(c)) = 2

(***************************************************************************)
(* Bare references in apply_mapping.                                       *)
(***************************************************************************)
\* the table of a provider: Codex agents use the Anthropic one
ProviderTable(provider) ==
    IF provider \in {"Anthropic", "Codex"} THEN default_mapping.anthropic
    ELSE default_mapping.vscode

\* the key a bare tool is looked up by, and what the table holds for it
AliasResolved(t, table) ==
    IF \E a \in DOMAIN table.aliases : a = t THEN table.aliases[t] ELSE t

IsHit(r, table, dest) ==
    /\ r.kind = "Bare"
    /\ AliasResolved(r.tool, table) \in DOMAIN table.map
    /\ table.map[AliasResolved(r.tool, table)].dest = dest

\* what a reference leaves in mcp_tool_refs: nothing on a Builtin hit, the
\* Namespaced reference of an McpTool hit, a Bare reference on a miss
LeftBy(r, table) ==
    IF r.kind = "Namespaced" THEN <<r>>
    ELSE IF IsHit(r, table, "Builtin") THEN <<>>
    ELSE IF IsHit(r, table, "McpTool")
    THEN LET d == table.map[AliasResolved(r.tool, table)]
         IN  <<Namespaced(d.server_key, d.tool)>>
    ELSE <<Bare(AliasResolved(r.tool, table))>>

RECURSIVE LeftByAll(_, _)
LeftByAll(refs, table) ==
    IF refs = <<>> THEN <<>>
    ELSE LeftBy(Head(refs), table) \o LeftByAll(Tail(refs), table)

\* some reference of the list hits the Builtin of the toggle
HitsToggle(refs, table, toggle) ==
    \E i \in 1..Len(refs) :
        /\ IsHit(refs[i], table, "Builtin")
        /\ table.map[AliasResolved(refs[i].tool, table)].toggle = toggle

ToggleAfter(before, refs, table, toggle) ==
    IF HitsToggle(refs, table, toggle) THEN Some(TRUE) ELSE before

\* the server keys of the McpTool hits, in order
RECURSIVE McpHitKeys(_, _)
McpHitKeys(refs, table) ==
    IF refs = <<>> THEN <<>>
    ELSE (IF IsHit(Head(refs), table, "McpTool")
          THEN <<table.map[AliasResolved(Head(refs).tool, table)].server_key>>
          ELSE <<>>) \o McpHitKeys(Tail(refs), table)

\* C26: apply_mapping alias-resolves each Bare{tool} (case-sensitively) and
\* looks it up in the provider's table (Codex agents use the Anthropic one):
\* a Builtin hit sets the matching run toggle to true and removes the
\* reference (TerminalAccess removes it and sets no toggle); an McpTool hit
\* replaces it by Namespaced{server_key, tool} and returns the custom
\* sub-server if and only if allow_custom_servers; a miss keeps a Bare
\* reference. If no reference remains, mcp_tool_refs becomes absent.
C26_BareMapped ==
    \A n \in 2..Len(tm_cfgs) :
        tm_cfgs[n - 1].mcp_tool_refs # None =>
            LET refs == tm_cfgs[n - 1].mcp_tool_refs[1]
                table == ProviderTable(tm_args.provider)
                before == TogglesOf(tm_cfgs[n - 1].run)
                left == LeftByAll(refs, table)
            IN  /\ tm_cfgs[n].mcp_tool_refs = IF left = <<>> THEN None ELSE Some(left)
                /\ tm_cfgs[n].run # None
                /\ tm_cfgs[n].run[1] =
                      [include_plan_tool |->
                          ToggleAfter(before.include_plan_tool, refs, table, "Plan"),
                       include_apply_patch_tool |->
                          ToggleAfter(before.include_apply_patch_tool, refs, table, "ApplyPatch"),
                       include_view_image_tool |->
                          ToggleAfter(before.include_view_image_tool, refs, table, "ViewImage"),
                       tools_web_search_request |->
                          ToggleAfter(before.tools_web_search_request, refs, table, "WebSearch")]
                /\ [i \in DOMAIN tm_customs[n - 1] |-> tm_customs[n - 1][i].key] =
                      IF tm_args.allow_custom_servers THEN McpHitKeys(refs, table) ELSE <<>>

\* applied for a VS Code agent with custom servers allowed: the memory tool
\* became a namespaced reference with its server returned, the edit tool
\* became the apply-patch toggle
C26_Witness ==
    /\ Len(tm_cfgs) >= 2
    /\ tm_args.provider = "Vscode"
    /\ tm_args.allow_custom_servers
    /\ tm_cfgs[1].mcp_tool_refs = Some(<<Bare("memory"), Bare("edit")>>)
    /\ tm_cfgs[2].mcp_tool_refs = Some(<<Namespaced("memory", "memory")>>)
    /\ tm_cfgs[2].run[1].include_apply_patch_tool = Some(TRUE)
    /\ Len(tm_customs[1]) = 1

(***************************************************************************)
(* The project filters of ~/.claude.json.                                  *)
(***************************************************************************)
\* the discovered entry of k was contributed by ~/.claude.json
FromClaudeUser(k) == k \in DOMAIN by_key /\ by_key[k].origin.path = Some("claude_user")

\* C28 (as stated): a server key listed in the project's
\* disabledMcpjsonServers, or missing from its enabledMcpjsonServers when
\* that list is present, is not contributed to the discovery result by
\* ~/.claude.json.
C28_FiltersHonored ==
    \A k \in ConfigKeys : FromClaudeUser(k) => PassesProjectFilters(k)

\* C28 (amended): such a key is not contributed by the project entry of
\* ~/.claude.json; the file still contributes it when its global mcpServers
\* define the key, and then as the global entry.
C28_FiltersHonoredWithinProject ==
    \A k \in ConfigKeys :
        (FromClaudeUser(k) /\ ~PassesProjectFilters(k)) =>
            /\ by_key[k].origin.note = Some("global")
            /\ ClaudeGlobal(k)

\* ~/.claude.json has been merged: a key its project entry defines and its
\* filters exclude, without a global entry, was not contributed
C28_Witness ==
    /\ kpc = "vscode_project"
    /\ \E k \in ConfigKeys :
          /\ k \in DOMAIN files.claude_user.project.mcpServers
          /\ IsStdioDef(files.claude_user.project.mcpServers[k])
          /\ ~IsHttpOrUrlDef(files.claude_user.project.mcpServers[k])
          /\ ~PassesProjectFilters(k)
          /\ ~ClaudeGlobal(k)
          /\ ~FromClaudeUser(k)


(***************************************************************************)
(* The registry built from the prepared list.  prepare_all pushes one      *)
(* PreparedAgent per resolved agent, in order, copying the tool_name that  *)
(* dedupe_tool_names left (loader.rs 404-431, no filter set); the          *)
(* agent's position in that list stands for its identity.                  *)
(* AgentsServerHandler::new then inserts each into agents_by_tool.         *)
(***************************************************************************)
prepared ==
    [i \in DOMAIN records |-> [tool_name |-> records[i].tool_name, name |-> i]]

BuildRegistry ==
    /\ dpc = "deduped"
    /\ agents_by_tool' = AgentsServerHandler_new(prepared)
    /\ dpc' = "registered"
    /\ UNCHANGED <<pc, req, reply, run, result, events, nread, closed>>
    /\ UNCHANGED <<records, seen, avars, pvars>>

NextRegistry == DedupeToolNames \/ BuildRegistry

SpecRegistry == InitDedupe /\ [][NextRegistry]_vars

\* C30: once the registry is built from the prepared list, it has exactly
\* one entry per prepared agent, ListTools returns as many tools as there
\* are prepared agents, and looking up an agent's tool_name yields that
\* same agent.
C30_NoAgentShadowed ==
    dpc = "registered" =>
        /\ Cardinality(DOMAIN agents_by_tool) = Len(prepared)
        /\ Cardinality(tool_definitions(agents_by_tool)) = Len(prepared)
        /\ \A i \in DOMAIN prepared :
              /\ prepared[i].tool_name \in DOMAIN agents_by_tool
              /\ agents_by_tool[prepared[i].tool_name] = prepared[i]


(***************************************************************************)
(* An agent's instructions: what each parser puts into                     *)
(* AgentConfig.instructions and what read_instructions resolves for the    *)
(* PreparedAgent.                                                          *)
(***************************************************************************)
MaxInstrLen == 2

\* str::trim removes leading and trailing whitespace of every kind
Whitespace == {" ", "\t", "\n", "\r"}

RECURSIVE str_trim_start(_)
str_trim_start(str) ==
    IF str # <<>> /\ Head(str) \in Whitespace THEN str_trim_start(Tail(str)) ELSE str

RECURSIVE str_trim_end(_)
str_trim_end(str) ==
    IF str # <<>> /\ str[Len(str)] \in Whitespace
    THEN str_trim_end(SubSeq(str, 1, Len(str) - 1))
    ELSE str

str_trim(str) == str_trim_end(str_trim_start(str))

\* lines.collect::<Vec<&str>>().join("\n")
RECURSIVE join_newline(_)
join_newline(ls) ==
    IF ls = <<>> THEN <<>>
    ELSE IF Len(ls) = 1 THEN ls[1]
    ELSE ls[1] \o <<"\n">> \o join_newline(Tail(ls))

\* the lines of an agent file after the closing '---', joined and trimmed
frontmatter_instructions(body_lines) == Some(str_trim(join_newline(body_lines)))

AnthropicFrontmatterParser_parse(file) ==
    [instructions_file |-> None,
     instructions |-> frontmatter_instructions(file.body)]

VsCodeChatmodeParser_parse(file) ==
    [instructions_file |-> None,
     instructions |-> frontmatter_instructions(file.body)]

\* the TOML keys instructions_file and instructions, then the sibling
\* <stem>.prompt.md when neither gave a value
CodexTomlParser_parse(file, fs) ==
    LET instructions_file ==
            IF file.instructions_file.kind = "string"
            THEN Some(file.instructions_file.str) ELSE None
        inline ==
            IF file.instructions.kind = "string"
            THEN Some(file.instructions.str) ELSE None
        instructions ==
            IF instructions_file = None /\ inline = None
               /\ fs.prompt_md.tag # "Missing" /\ fs.prompt_md.tag = "Ok"
            THEN Some(fs.prompt_md.value)
            ELSE inline
    IN [instructions_file |-> instructions_file, instructions |-> instructions]

read_instructions(cfg, fs) ==
    IF /\ cfg.instructions_file # None
       /\ fs.instructions_file.tag = "Ok"
       /\ str_trim(fs.instructions_file.value) # <<>>
    THEN Some(fs.instructions_file.value)
    ELSE cfg.instructions

\* ---- inputs
InstrChars == {" ", "\n", "x"}
LineChars == {" ", "x"}
Contents == UNION {[1..n -> InstrChars] : n \in 0..MaxInstrLen}
BodyLines == UNION {[1..n -> {<<>>} \cup {<<c>> : c \in LineChars}] : n \in 0..MaxInstrLen}
S_prompt_path == <<"p">>
TomlValues(strs) ==
    {[kind |-> "absent"], [kind |-> "other"]} \cup {[kind |-> "string", str |-> s] : s \in strs}
ReadResults == {Err("io")} \cup {Ok(s) : s \in Contents}
NoToml == [kind |-> "absent"]

CodexFiles ==
    {[variant |-> "codex", body |-> <<>>, instructions |-> i, instructions_file |-> f] :
        i \in TomlValues(Contents), f \in TomlValues({S_prompt_path})}
FrontmatterFiles ==
    {[variant |-> v, body |-> b, instructions |-> NoToml, instructions_file |-> NoToml] :
        v \in {"anthropic", "vscode"}, b \in BodyLines}

ParseCodexToml ==
    /\ ipc = "file" /\ agent_file.variant = "codex"
    /\ agent_cfg' = Some(CodexTomlParser_parse(agent_file, instr_fs))
    /\ ipc' = "parsed"
    /\ UNCHANGED <<agent_file, instr_fs, prepared_agent, but_ivars>>

ParseAnthropicFrontmatter ==
    /\ ipc = "file" /\ agent_file.variant = "anthropic"
    /\ agent_cfg' = Some(AnthropicFrontmatterParser_parse(agent_file))
    /\ ipc' = "parsed"
    /\ UNCHANGED <<agent_file, instr_fs, prepared_agent, but_ivars>>

ParseVsCodeChatmode ==
    /\ ipc = "file" /\ agent_file.variant = "vscode"
    /\ agent_cfg' = Some(VsCodeChatmodeParser_parse(agent_file))
    /\ ipc' = "parsed"
    /\ UNCHANGED <<agent_file, instr_fs, prepared_agent, but_ivars>>

\* prepare_all: the PreparedAgent pushed for the parsed agent
PrepareInstructions ==
    /\ ipc = "parsed"
    /\ prepared_agent' = Some([instructions |-> read_instructions(agent_cfg[1], instr_fs)])
    /\ ipc' = "prepared"
    /\ UNCHANGED <<agent_file, instr_fs, agent_cfg, but_ivars>>

InitInstructions ==
    /\ OffButInstructions
    /\ agent_file \in CodexFiles \cup FrontmatterFiles
    /\ instr_fs \in [instructions_file : ReadResults,
                     prompt_md : {[tag |-> "Missing"]} \cup ReadResults]
    /\ agent_file.variant # "codex" =>
          instr_fs = [instructions_file |-> Err("io"), prompt_md |-> [tag |-> "Missing"]]
    /\ agent_cfg = None
    /\ prepared_agent = None
    /\ ipc = "file"

NextInstructions ==
    \/ ParseCodexToml
    \/ ParseAnthropicFrontmatter
    \/ ParseVsCodeChatmode
    \/ PrepareInstructions

SpecInstructions == InitInstructions /\ [][NextInstructions]_vars

AbsentOrNonBlank(instr) ==
    instr = None \/ \E i \in 1..Len(instr[1]) : instr[1][i] \notin Whitespace

\* C21: every AgentConfig a parser produced and every PreparedAgent
\* prepare_all produced has instructions that are absent or contain at
\* least one non-whitespace character.
C21_NoBlankInstructions ==
    /\ agent_cfg # None => AbsentOrNonBlank(agent_cfg[1].instructions)
    /\ prepared_agent # None => AbsentOrNonBlank(prepared_agent[1].instructions)

\* the same for the PreparedAgent alone, when the parser's AgentConfig had
\* instructions that were absent or non-blank
C21_PreparedNoBlankGivenParsed ==
    (/\ prepared_agent # None
     /\ AbsentOrNonBlank(agent_cfg[1].instructions))
        => AbsentOrNonBlank(prepared_agent[1].instructions)

=============================================================================
